---- MODULE Spec2Model ----
(***************************************************************************)
(* A model of the bitcoin-ts authentication virtual machine: the Bitcoin   *)
(* Cash instruction set (push, stack, bitwise, flow-control and crypto     *)
(* operators), the Script Number codec, and the step / stepMutate /        *)
(* evaluate / debug runtime driven over it.                                *)
(*                                                                         *)
(* JavaScript objects are modelled by reference: `heap` holds the          *)
(* Uint8Arrays (bufs), the stack arrays (arrs) and the program state       *)
(* objects (objs); a reference is an index into one of them.  An operator  *)
(* takes the heap and a state reference and gives back the new heap and    *)
(* the reference it returns, so that "mutates in place" and "returns a     *)
(* copy" are different things in the model, as they are in the code.       *)
(***************************************************************************)
EXTENDS Integers, Sequences, FiniteSets, TLC

VARIABLES
  heap,      \* [bufs, arrs, objs]: every Uint8Array, stack array and state object
  pc,        \* position of the calling program
  s,         \* the state object the caller owns and passes to the machine
  pre,       \* the caller's record of s (by value) taken before the calls
  active,    \* the working copy of the evaluate / debug loop in progress
  trace,     \* debug(s): the steps recorded so far, each holding a state reference
  evalRet,   \* evaluate(s)
  stepRet,   \* step(s)
  stepRet2,  \* step(e), e the state evaluate(s) returned
  evalRet2,  \* evaluate(e)
  smRet,     \* stepMutate(s)
  cl,        \* clone(s), which the caller then writes to
  num,       \* Script Number codec: the integer given to bigIntToScriptNumber
  bin,       \* Script Number codec: the bytes given to parseBytesAsScriptNumber
  parsed,    \* Script Number codec: the value parseBytesAsScriptNumber returned
  truthy,    \* Script Number codec: the value stackElementIsTruthy returned
  program,               \* the AuthenticationProgram given to the composer
  unlockingScriptResult, \* composer: the trace of the unlocking pass
  lockingScriptResult,   \* composer: the trace of the locking pass
  p2shScriptResult,      \* composer: the trace of the P2SH pass
  returned,              \* composer: the trace returned
  varIntValue,   \* VarInt: the integer given to bigIntToBitcoinVarInt
  varIntOffset,  \* VarInt: the offset the encoding is stored at
  varIntBin,     \* VarInt: the Uint8Array holding the encoding
  varIntRead,    \* VarInt: the object readBitcoinVarInt returned
  hexInput,      \* hex: the Uint8Array given to binToHex
  hexString,     \* hex: the string binToHex returned, one character per element
  hexDecoded,    \* hex: the Uint8Array hexToBin returned for that string
  hexAgain,      \* hex: the string binToHex returned for that Uint8Array
  simpleProgram, \* demo machine: the state given to vm.debug
  simpleWorking, \* demo machine: the working copy of the debug loop
  simpleTrace    \* demo machine: the steps recorded so far, by value

vars == <<heap, pc, s, pre, active, trace, evalRet, stepRet, stepRet2, evalRet2,
          smRet, cl, num, bin, parsed, truthy, program, unlockingScriptResult,
          lockingScriptResult, p2shScriptResult, returned, varIntValue, varIntOffset,
          varIntBin, varIntRead, hexInput, hexString, hexDecoded, hexAgain,
          simpleProgram, simpleWorking, simpleTrace>>

vmVars == <<heap, s, pre, active, trace, evalRet, stepRet, stepRet2, evalRet2, smRet, cl>>
codecVars == <<num, bin, parsed, truthy>>
programVars == <<program, unlockingScriptResult, lockingScriptResult, p2shScriptResult, returned>>
utilsVars == <<varIntValue, varIntOffset, varIntBin, varIntRead, hexInput, hexString, hexDecoded, hexAgain>>
simpleVars == <<simpleProgram, simpleWorking, simpleTrace>>

-----------------------------------------------------------------------------
(* Bounds of the model *)

\* enumerated scripts have at most this many bytes
MaxScriptLen == 2
\* enumerated initial stacks have at most this many elements
MaxStackDepth == 1
\* byte arrays given to parseBytesAsScriptNumber have at most this many bytes
MaxBinLen == 5
\* integers within this distance of 0 and of each byte-width boundary are encoded
NumSpread == 3
\* the deepest stack handed to a stack operator
MaxOpDepth == 3

-----------------------------------------------------------------------------
(* Values *)

Byte == 0..255

\* `undefined`: what Array.prototype.pop returns on an empty array
Undefined == 0

\* state.error === undefined
NoError == "none"

Min(a, b) == IF a < b THEN a ELSE b

RECURSIVE Pow(_, _)
Pow(b, e) == IF e = 0 THEN 1 ELSE b * Pow(b, e - 1)

Last(q) == q[Len(q)]
Front(q) == SubSeq(q, 1, Len(q) - 1)

\* a & b on BigInt, a >= 0 and b any integer (two's complement, unbounded)
RECURSIVE BitAnd(_, _)
BitAnd(a, b) ==
  IF a = 0 THEN 0
  ELSE (a % 2) * (b % 2) + 2 * BitAnd(a \div 2, b \div 2)

\* x << k on a JavaScript number (0 <= x < 2^31, 0 <= k < 32): the product
\* wraps to a signed 32-bit integer
ShiftLeft32(x, k) ==
  IF k = 0 THEN x
  ELSE LET lo == x % Pow(2, 31 - k)
           hi == (x \div Pow(2, 31 - k)) % 2
       IN lo * Pow(2, k) + hi * (-2147483647 - 1)

\* ~x on a signed 32-bit integer
BitNot32(x) == -(x + 1)

-----------------------------------------------------------------------------
(* CommonAuthenticationError and ScriptNumberError *)

emptyStack == "Tried to read from an empty stack."
malformedPush == "Script must be long enough to push the requested number of bytes."
nonMinimalPush == "Push operations must use the smallest possible encoding."
exceedsMaximumPush == "Push exceeds the push size limit of 520 bytes."
unknownOpcode == "Called an unknown or unimplemented opcode."
failedVerify == "Script failed an OP_VERIFY operation."
invalidPublicKeyEncoding == "Encountered an improperly encoded public key."
invalidSignatureEncoding == "Encountered an improperly encoded signature."

outOfRange == "Failed to parse Script Number: overflows Script Number range."
requiresMinimal == "Failed to parse Script Number: the number is not minimally-encoded."

-----------------------------------------------------------------------------
(* Script Number codec (common.ts) *)

maximumScriptNumberByteLength == 4
allButTheSignBit == 127
signFlippingByte == 128
bitsPerByte == 8
byteStates == 255

\* `BigInt | ScriptNumberError`: a number, or one of the two errors as a value
Number(n) == [error |-> NoError, value |-> n]
ScriptNumberError(e) == [error |-> e, value |-> 0]

\* the loop `result |= BigInt(bytes[byte]) << BigInt(byte * bitsPerByte)`
RECURSIVE parseLoop(_, _)
parseLoop(bytes, byte) ==
  IF byte >= Len(bytes) THEN 0
  ELSE bytes[byte + 1] * Pow(2, byte * bitsPerByte) + parseLoop(bytes, byte + 1)

\* ~(signFlippingByte << (bitsPerByte * (bytes.length - 1))): the shift and the
\* complement are 32-bit operations on a JavaScript number
signMask(length) == BitNot32(ShiftLeft32(signFlippingByte, bitsPerByte * (length - 1)))

\* result & BigInt(mask), where result is the BigInt whose little-endian
\* base-256 digits are `bytes` (what the loop above builds)
RECURSIVE maskLoop(_, _, _)
maskLoop(bytes, mask, byte) ==
  IF byte >= Len(bytes) THEN 0
  ELSE BitAnd(bytes[byte + 1], mask % 256) * Pow(2, byte * bitsPerByte)
         + maskLoop(bytes, mask \div 256, byte + 1)

\* as parseBytesAsScriptNumber, but a zero-valued top byte is always rejected,
\* also when it is there to keep the sign bit of the byte below clear
parseRejectingSignByte(bytes) ==
  IF Len(bytes) = 0 THEN Number(0)
  ELSE IF Len(bytes) > maximumScriptNumberByteLength THEN ScriptNumberError(outOfRange)
  ELSE
    LET mostSignificantByte == bytes[Len(bytes)]
        isNegative == BitAnd(bytes[Len(bytes)], signFlippingByte) # 0
    IN IF BitAnd(mostSignificantByte, allButTheSignBit) = 0
       THEN ScriptNumberError(requiresMinimal)
       ELSE IF isNegative
            THEN Number(-maskLoop(bytes, signMask(Len(bytes)), 0))
            ELSE Number(parseLoop(bytes, 0))

\* as parseBytesAsScriptNumber, but without the test for minimal encoding
parseAcceptingNonMinimal(bytes) ==
  IF Len(bytes) = 0 THEN Number(0)
  ELSE IF Len(bytes) > maximumScriptNumberByteLength THEN ScriptNumberError(outOfRange)
  ELSE
    LET isNegative == BitAnd(bytes[Len(bytes)], signFlippingByte) # 0
    IN IF isNegative
       THEN Number(-maskLoop(bytes, signMask(Len(bytes)), 0))
       ELSE Number(parseLoop(bytes, 0))

parseBytesAsScriptNumber(bytes) ==
  IF Len(bytes) = 0 THEN Number(0)
  ELSE IF Len(bytes) > maximumScriptNumberByteLength THEN ScriptNumberError(outOfRange)
  ELSE
    LET mostSignificantByte == bytes[Len(bytes)]
        isNegative == BitAnd(bytes[Len(bytes)], signFlippingByte) # 0
    IN IF /\ BitAnd(mostSignificantByte, allButTheSignBit) = 0
          /\ \/ Len(bytes) <= 1
             \/ BitAnd(bytes[Len(bytes) - 1], signFlippingByte) = 0
       THEN ScriptNumberError(requiresMinimal)
       ELSE IF isNegative
            THEN Number(-maskLoop(bytes, signMask(Len(bytes)), 0))
            ELSE Number(parseLoop(bytes, 0))

\* the loop `while (remaining > 0) { bytes.push(remaining & 0xff); remaining >>= 8 }`
RECURSIVE encodeLoop(_)
encodeLoop(remaining) ==
  IF remaining > 0
  THEN <<BitAnd(remaining, byteStates)>> \o encodeLoop(remaining \div Pow(2, bitsPerByte))
  ELSE <<>>

\* as bigIntToScriptNumber, but the sign goes into the top byte even when its
\* high bit is already taken by the magnitude
encodeWithoutSignByte(integer) ==
  IF integer = 0 THEN <<>>
  ELSE
    LET isNegative == integer < 0
        bytes == encodeLoop(IF isNegative THEN -integer ELSE integer)
    IN IF isNegative /\ BitAnd(Last(bytes), signFlippingByte) = 0
       THEN [bytes EXCEPT ![Len(bytes)] = @ + signFlippingByte]
       ELSE bytes

bigIntToScriptNumber(integer) ==
  IF integer = 0 THEN <<>>
  ELSE
    LET isNegative == integer < 0
        bytes == encodeLoop(IF isNegative THEN -integer ELSE integer)
    IN IF BitAnd(Last(bytes), signFlippingByte) > 0
       THEN Append(bytes, IF isNegative THEN signFlippingByte ELSE 0)
       ELSE IF isNegative
            THEN [bytes EXCEPT ![Len(bytes)] = @ + signFlippingByte]
            ELSE bytes

\* the loop of stackElementIsTruthy, from index i on
RECURSIVE truthyLoop(_, _)
truthyLoop(element, i) ==
  IF i >= Len(element) THEN FALSE
  ELSE IF element[i + 1] # 0
       THEN ~(i = Len(element) - 1 /\ element[i + 1] = signFlippingByte)
       ELSE truthyLoop(element, i + 1)

\* as stackElementIsTruthy, but true for every element with a non-zero byte
truthyForNegativeZero(element) == \E i \in 1..Len(element) : element[i] # 0

stackElementIsTruthy(element) == truthyLoop(element, 0)

booleanToScriptNumber(value) ==
  IF value THEN bigIntToScriptNumber(1) ELSE bigIntToScriptNumber(0)

-----------------------------------------------------------------------------
(* BitcoinCashOpCodes *)

OP_0 == 0
OP_DATA_1 == 1
OP_DATA_20 == 20
OP_DATA_75 == 75
OP_PUSHDATA1 == 76
OP_PUSHDATA2 == 77
OP_PUSHDATA4 == 78
OP_1NEGATE == 79
OP_RESERVED == 80
OP_1 == 81
OP_16 == 96
OP_VERIFY == 105
OP_DUP == 118
OP_EQUAL == 135
OP_EQUALVERIFY == 136
OP_HASH160 == 169
OP_CODESEPARATOR == 171
OP_CHECKSIG == 172

-----------------------------------------------------------------------------
(* The heap: Uint8Arrays, arrays and objects are reached by reference.      *)
(* Every operator below that allocates or writes gives back [h, r]: the new *)
(* heap and the reference (or value) the JavaScript expression evaluates to *)
(* A Uint8Array is a view of an ArrayBuffer: bufs holds the bytes of the    *)
(* view, offs the bytes of its ArrayBuffer that lie before its byteOffset   *)

EmptyHeap == [bufs |-> <<>>, offs |-> <<>>, arrs |-> <<>>, objs |-> <<>>]

\* new Uint8Array(bytes): a view of a buffer of its own, at byteOffset 0
NewUint8Array(h, bytes) ==
  [h |-> [h EXCEPT !.bufs = Append(@, bytes), !.offs = Append(@, <<>>)],
   r |-> Len(h.bufs) + 1]

\* array.buffer, from its first byte to the last byte of the view
arrayBuffer(h, array) == h.offs[array] \o h.bufs[array]

\* an array literal / a fresh array holding `elements`
NewArray(h, elements) ==
  [h |-> [h EXCEPT !.arrs = Append(@, elements)], r |-> Len(h.arrs) + 1]

\* an object literal with the given fields
NewObject(h, fields) ==
  [h |-> [h EXCEPT !.objs = Append(@, fields)], r |-> Len(h.objs) + 1]

\* the bytes of Uint8Array.prototype.slice(begin, end)
sliceBytes(bytes, begin, end) == SubSeq(bytes, begin + 1, Min(end, Len(bytes)))

\* buffer.slice(begin, end): a new Uint8Array with its own storage
slice(h, buffer, begin, end) ==
  NewUint8Array(h, sliceBytes(h.bufs[buffer], begin, end))

\* array.push(element)
push(h, array, element) == [h EXCEPT !.arrs[array] = Append(@, element)]

\* array.pop(): removes and returns the last element, `undefined` when empty
pop(h, array) ==
  IF Len(h.arrs[array]) = 0
  THEN [h |-> h, r |-> Undefined]
  ELSE [h |-> [h EXCEPT !.arrs[array] = Front(@)], r |-> Last(h.arrs[array])]

\* stack.reduce((newStack, element) => { newStack.push(element.slice()) ... }, [])
RECURSIVE cloneStackLoop(_, _, _, _)
cloneStackLoop(h, stack, newStack, i) ==
  IF i > Len(h.arrs[stack]) THEN [h |-> h, r |-> newStack]
  ELSE LET e == slice(h, h.arrs[stack][i], 0, Len(h.bufs[h.arrs[stack][i]]))
       IN cloneStackLoop(push(e.h, newStack, e.r), stack, newStack, i + 1)

cloneStack(h, stack) ==
  LET n == NewArray(h, <<>>)
  IN cloneStackLoop(n.h, stack, n.r, 1)

-----------------------------------------------------------------------------
(* bitcoinCashInstructionSet: before, clone, continue *)

before(h, state) ==
  [h |-> [h EXCEPT !.objs[state].ip = @ + 1], r |-> state]

\* as clone, but without the error field
cloneDroppingError(h, state) ==
  LET o  == h.objs[state]
      a1 == slice(h, o.correspondingOutputHash, 0, Len(h.bufs[o.correspondingOutputHash]))
      a2 == slice(a1.h, o.outpointTransactionHash, 0, Len(h.bufs[o.outpointTransactionHash]))
      a3 == slice(a2.h, o.script, 0, Len(h.bufs[o.script]))
      a4 == NewArray(a3.h, h.arrs[o.stack])
      a5 == slice(a4.h, o.transactionOutpointsHash, 0, Len(h.bufs[o.transactionOutpointsHash]))
      a6 == slice(a5.h, o.transactionOutputsHash, 0, Len(h.bufs[o.transactionOutputsHash]))
      a7 == slice(a6.h, o.transactionSequenceNumbersHash, 0,
                  Len(h.bufs[o.transactionSequenceNumbersHash]))
  IN NewObject(a7.h, [o EXCEPT !.error = NoError,
                               !.correspondingOutputHash = a1.r,
                               !.outpointTransactionHash = a2.r,
                               !.script = a3.r,
                               !.stack = a4.r,
                               !.transactionOutpointsHash = a5.r,
                               !.transactionOutputsHash = a6.r,
                               !.transactionSequenceNumbersHash = a7.r])

\* as clone, but with `stack: state.stack`: the stack array itself is shared
cloneSharingStack(h, state) ==
  LET o  == h.objs[state]
      a1 == slice(h, o.correspondingOutputHash, 0, Len(h.bufs[o.correspondingOutputHash]))
      a2 == slice(a1.h, o.outpointTransactionHash, 0, Len(h.bufs[o.outpointTransactionHash]))
      a3 == slice(a2.h, o.script, 0, Len(h.bufs[o.script]))
      a5 == slice(a3.h, o.transactionOutpointsHash, 0, Len(h.bufs[o.transactionOutpointsHash]))
      a6 == slice(a5.h, o.transactionOutputsHash, 0, Len(h.bufs[o.transactionOutputsHash]))
      a7 == slice(a6.h, o.transactionSequenceNumbersHash, 0,
                  Len(h.bufs[o.transactionSequenceNumbersHash]))
  IN NewObject(a7.h, [o EXCEPT !.correspondingOutputHash = a1.r,
                               !.outpointTransactionHash = a2.r,
                               !.script = a3.r,
                               !.transactionOutpointsHash = a5.r,
                               !.transactionOutputsHash = a6.r,
                               !.transactionSequenceNumbersHash = a7.r])

\* every field is copied; the Uint8Arrays are copied with slice(), and so is the
\* stack array: the new array holds the same element Uint8Arrays as the old one
clone(h, state) ==
  LET o  == h.objs[state]
      a1 == slice(h, o.correspondingOutputHash, 0, Len(h.bufs[o.correspondingOutputHash]))
      a2 == slice(a1.h, o.outpointTransactionHash, 0, Len(h.bufs[o.outpointTransactionHash]))
      a3 == slice(a2.h, o.script, 0, Len(h.bufs[o.script]))
      a4 == NewArray(a3.h, h.arrs[o.stack])
      a5 == slice(a4.h, o.transactionOutpointsHash, 0, Len(h.bufs[o.transactionOutpointsHash]))
      a6 == slice(a5.h, o.transactionOutputsHash, 0, Len(h.bufs[o.transactionOutputsHash]))
      a7 == slice(a6.h, o.transactionSequenceNumbersHash, 0,
                  Len(h.bufs[o.transactionSequenceNumbersHash]))
  IN NewObject(a7.h, [o EXCEPT !.correspondingOutputHash = a1.r,
                               !.outpointTransactionHash = a2.r,
                               !.script = a3.r,
                               !.stack = a4.r,
                               !.transactionOutpointsHash = a5.r,
                               !.transactionOutputsHash = a6.r,
                               !.transactionSequenceNumbersHash = a7.r])

\* as continue, but looking at ip only
continueIgnoringError(h, state) ==
  h.objs[state].ip < Len(h.bufs[h.objs[state].script])

continue(h, state) ==
  /\ h.objs[state].error = NoError
  /\ h.objs[state].ip < Len(h.bufs[h.objs[state].script])

-----------------------------------------------------------------------------
(* Operators of the common instruction set *)

Script(h, state) == h.bufs[h.objs[state].script]
Stack(h, state) == h.objs[state].stack

\* ({ ...state, error }): a new object; `state` itself is not written to
applyError(h, error, state) ==
  NewObject(h, [h.objs[state] EXCEPT !.error = error])

\* an undefined operator that treats the opcode as a no-op
undefinedOperatorAsNop(h, state) == [h |-> h, r |-> state]

\* as undefinedOperator, but OP_CODESEPARATOR marks its position, as the
\* operator that crypto.ts leaves commented out would
undefinedOperatorSeparatingCode(h, state) ==
  IF Script(h, state)[h.objs[state].ip] = OP_CODESEPARATOR
  THEN [h |-> [h EXCEPT !.objs[state].lastCodeSeparator = h.objs[state].ip], r |-> state]
  ELSE [h |-> [h EXCEPT !.objs[state].error = unknownOpcode], r |-> state]

undefinedOperator(h, state) ==
  [h |-> [h EXCEPT !.objs[state].error = unknownOpcode], r |-> state]

(* push.ts *)

opPushNumber(value, h, state) ==
  LET b == NewUint8Array(h, bigIntToScriptNumber(value))
  IN [h |-> push(b.h, Stack(h, state), b.r), r |-> state]

pushNumberOpCodes ==
  <<OP_1NEGATE, OP_0>> \o [i \in 1..16 |-> OP_1 + i - 1]

\* as pushNumberOperators, but the opcode at index i pushes i
pushNumberOperatorsByIndex(opcode, h, state) ==
  LET i == CHOOSE j \in 0..(Len(pushNumberOpCodes) - 1) : pushNumberOpCodes[j + 1] = opcode
  IN opPushNumber(i, h, state)

\* pushNumberOpCodes.map((opcode, i) => ({ [opcode]: opPushNumber(i - 1) }))
pushNumberOperators(opcode, h, state) ==
  LET i == CHOOSE j \in 0..(Len(pushNumberOpCodes) - 1) : pushNumberOpCodes[j + 1] = opcode
  IN opPushNumber(i - 1, h, state)

\* as opPushDataConstant, but requiring a byte of script after the payload
opPushDataConstantBeforeEnd(value, h, state) ==
  LET pushStart == h.objs[state].ip
      pushEnd == h.objs[state].ip + value
  IN IF Len(Script(h, state)) <= pushEnd
     THEN applyError(h, malformedPush, state)
     ELSE LET b == slice(h, h.objs[state].script, pushStart, pushEnd)
          IN [h |-> [push(b.h, Stack(h, state), b.r) EXCEPT !.objs[state].ip = pushEnd],
              r |-> state]

\* as opPushDataConstant, but without the test of the length of the script
opPushDataConstantUnchecked(value, h, state) ==
  LET pushStart == h.objs[state].ip
      pushEnd == h.objs[state].ip + value
      b == slice(h, h.objs[state].script, pushStart, pushEnd)
  IN [h |-> [push(b.h, Stack(h, state), b.r) EXCEPT !.objs[state].ip = pushEnd],
      r |-> state]

\* as opPushDataConstant, but ip is left at the first byte pushed
opPushDataConstantNotSkipping(value, h, state) ==
  LET pushStart == h.objs[state].ip
      pushEnd == h.objs[state].ip + value
  IN IF Len(Script(h, state)) < pushEnd
     THEN applyError(h, malformedPush, state)
     ELSE LET b == slice(h, h.objs[state].script, pushStart, pushEnd)
          IN [h |-> push(b.h, Stack(h, state), b.r), r |-> state]

\* as opPushDataConstant, but the bytes pushed are zeroed in the script
opPushDataConstantConsuming(value, h, state) ==
  LET pushStart == h.objs[state].ip
      pushEnd == h.objs[state].ip + value
      script == h.objs[state].script
  IN IF Len(Script(h, state)) < pushEnd
     THEN applyError(h, malformedPush, state)
     ELSE LET b == slice(h, script, pushStart, pushEnd)
              pushed == push(b.h, Stack(h, state), b.r)
          IN [h |-> [pushed EXCEPT
                       !.objs[state].ip = pushEnd,
                       !.bufs[script] = [k \in 1..Len(@) |->
                                           IF k > pushStart /\ k <= pushEnd THEN 0 ELSE @[k]]],
              r |-> state]

opPushDataConstant(value, h, state) ==
  LET pushStart == h.objs[state].ip
      pushEnd == h.objs[state].ip + value
  IN IF Len(Script(h, state)) < pushEnd
     THEN applyError(h, malformedPush, state)
     ELSE LET b == slice(h, h.objs[state].script, pushStart, pushEnd)
          IN [h |-> [push(b.h, Stack(h, state), b.r) EXCEPT !.objs[state].ip = pushEnd],
              r |-> state]

pushDataConstantOpCodes == [i \in 1..OP_DATA_75 |-> OP_DATA_1 + i - 1]

\* pushDataConstantOpCodes.map((opcode, i) => ({ [opcode]: opPushDataConstant(i + 1) }))
pushDataConstantOperators(opcode, h, state) ==
  LET i == CHOOSE j \in 0..(Len(pushDataConstantOpCodes) - 1) :
             pushDataConstantOpCodes[j + 1] = opcode
  IN opPushDataConstant(i + 1, h, state)

\* a Uint32 with its top bit set is at least 2^31, more than any script length
\* and more than TLC's integers hold: it is read as this value, which
\* is likewise above every script length, minimum and maximum
HugeLength == 2147418112

\* new DataView(script.buffer, ip, lengthBits).getUintN(0, true): the bytes are
\* read at offset ip of the ArrayBuffer of script, not of the view
readLittleEndianLength(h, script, ip, lengthBits) ==
  LET view == SubSeq(arrayBuffer(h, script), ip + 1, ip + lengthBits)
  IN IF lengthBits = 4 /\ view[4] >= signFlippingByte
     THEN HugeLength
     ELSE parseLoop(view, 0)

maximumPushDataConstant == 75
maximumPushSize == 520
possibleStates == 256
highestRepresentableNumberIn(bytes) == Pow(possibleStates, bytes)

createPushDataOperator(lengthBits, minimum, maximum, h, state) ==
  LET pushBegin == h.objs[state].ip + lengthBits
      length == readLittleEndianLength(h, h.objs[state].script, h.objs[state].ip, lengthBits)
  IN IF Len(Script(h, state)) < pushBegin
     THEN applyError(h, malformedPush, state)
     ELSE IF Len(Script(h, state)) < pushBegin + length
     THEN applyError(h, malformedPush, state)
     ELSE IF length < minimum
     THEN applyError(h, nonMinimalPush, state)
     ELSE IF length > maximum
     THEN applyError(h, exceedsMaximumPush, state)
     ELSE LET pushEnd == pushBegin + length
              b == slice(h, h.objs[state].script, pushBegin, pushEnd)
          IN [h |-> [push(b.h, Stack(h, state), b.r) EXCEPT !.objs[state].ip = pushEnd],
              r |-> state]

opPushData1(h, state) ==
  createPushDataOperator(1, maximumPushDataConstant, maximumPushSize, h, state)

\* as opPushData2, but with a maximum of one byte more
opPushData2AboveMaximum(h, state) ==
  createPushDataOperator(2, highestRepresentableNumberIn(1), maximumPushSize + 1, h, state)

opPushData2(h, state) ==
  createPushDataOperator(2, highestRepresentableNumberIn(1), maximumPushSize, h, state)

\* as opPushData4, but with the minimum of opPushData2
opPushData4FromUint8Limit(h, state) ==
  createPushDataOperator(4, highestRepresentableNumberIn(1), maximumPushSize, h, state)

opPushData4(h, state) ==
  createPushDataOperator(4, highestRepresentableNumberIn(2), maximumPushSize, h, state)

(* stack.ts *)

\* as opDup, but pushing the top element itself, not a copy of it
opDupSharingElement(h, state) ==
  IF Len(h.arrs[Stack(h, state)]) < 1
  THEN applyError(h, emptyStack, state)
  ELSE LET element == Last(h.arrs[Stack(h, state)])
       IN [h |-> push(h, Stack(h, state), element), r |-> state]

opDup(h, state) ==
  IF Len(h.arrs[Stack(h, state)]) < 1
  THEN applyError(h, emptyStack, state)
  ELSE LET element == Last(h.arrs[Stack(h, state)])
           c == slice(h, element, 0, Len(h.bufs[element]))
       IN [h |-> push(c.h, Stack(h, state), c.r), r |-> state]

(* flow-control.ts *)

\* as opVerify, but accepting every element that is there
opVerifyAccepting(h, state) ==
  LET element == pop(h, Stack(h, state))
  IN IF element.r = Undefined
     THEN applyError(element.h, emptyStack, state)
     ELSE [h |-> element.h, r |-> state]

opVerify(h, state) ==
  LET element == pop(h, Stack(h, state))
  IN IF element.r = Undefined
     THEN applyError(element.h, emptyStack, state)
     ELSE IF stackElementIsTruthy(h.bufs[element.r])
          THEN [h |-> element.h, r |-> state]
          ELSE applyError(element.h, failedVerify, state)

(* bitwise.ts *)

RECURSIVE areEqualLoop(_, _, _)
areEqualLoop(a, b, i) ==
  IF i >= Len(a) THEN TRUE
  ELSE IF a[i + 1] # b[i + 1] THEN FALSE
  ELSE areEqualLoop(a, b, i + 1)

\* as areEqual, but comparing the lengths only
areEqualInLength(a, b) == Len(a) = Len(b)

areEqual(a, b) ==
  IF Len(a) # Len(b) THEN FALSE ELSE areEqualLoop(a, b, 0)

opEqual(h, state) ==
  LET element1 == pop(h, Stack(h, state))
      element2 == pop(element1.h, Stack(h, state))
  IN IF element1.r = Undefined \/ element2.r = Undefined
     THEN applyError(element2.h, emptyStack, state)
     ELSE LET result == NewUint8Array(element2.h,
                          booleanToScriptNumber(areEqual(h.bufs[element1.r], h.bufs[element2.r])))
          IN [h |-> push(result.h, Stack(h, state), result.r), r |-> state]

\* as opEqualVerify, but without the verify
opEqualUnverified(h, state) == opEqual(h, state)

\* verify(equal(state))
opEqualVerify(h, state) ==
  LET e == opEqual(h, state)
  IN opVerify(e.h, e.r)

-----------------------------------------------------------------------------
(* utils.ts: little-endian integers and the Bitcoin VarInt writer *)

\* bin[offset] = Number(value); value = value >> 8, for `bytes` bytes
RECURSIVE bigIntToBinUintLE(_, _)
bigIntToBinUintLE(value, bytes) ==
  IF bytes = 0 THEN <<>>
  ELSE <<value % 256>> \o bigIntToBinUintLE(value \div 256, bytes - 1)

\* bin[offset] = value; value = value >>> 8, for `bytes` bytes
numberToBinUintLE(value, bytes) == bigIntToBinUintLE(value, bytes)

Uint8MaxValue == 252
Uint16Prefix == 253
Uint16MaxValue == 65535
Uint32Prefix == 254
Uint64Prefix == 255

\* values above Uint32MaxValue (0xffffffff) are beyond the integers of TLC
bigIntToBitcoinVarInt(value) ==
  IF value <= Uint8MaxValue THEN bigIntToBinUintLE(value, 1)
  ELSE IF value <= Uint16MaxValue THEN <<Uint16Prefix>> \o bigIntToBinUintLE(value, 2)
  ELSE <<Uint32Prefix>> \o bigIntToBinUintLE(value, 4)

ByteLength == [uint8 |-> 1, uint16 |-> 2, uint32 |-> 4, uint64 |-> 8]

\* bin.subarray(begin, end): the bytes of the view
subarray(binary, begin, end) == SubSeq(binary, begin + 1, Min(end, Len(binary)))

\* value += BigInt(bin[offset] * 2 ** (8 * offset)), for `bytes` bytes
RECURSIVE binToBigIntUintLE(_, _)
binToBigIntUintLE(binary, bytes) ==
  IF bytes = 0 THEN 0
  ELSE binToBigIntUintLE(binary, bytes - 1) + binary[bytes] * Pow(2, 8 * (bytes - 1))

varIntPrefixToSize(firstByte) ==
  CASE firstByte = Uint16Prefix -> ByteLength.uint16
    [] firstByte = Uint32Prefix -> ByteLength.uint32
    [] firstByte = Uint64Prefix -> ByteLength.uint64
    [] OTHER -> ByteLength.uint8

readBitcoinVarInt(binary, offset) ==
  LET bytes == varIntPrefixToSize(binary[offset + 1])
  IN [nextOffset |-> offset + bytes,
      value |-> binToBigIntUintLE(subarray(binary, offset, offset + bytes), bytes)]

(* utils.ts: hexadecimal strings, a string being the sequence of its characters *)

hexByteWidth == 2
hexadecimal == 16

\* the digits of Number.prototype.toString and of parseInt, by value
Digits == <<"0", "1", "2", "3", "4", "5", "6", "7", "8", "9",
            "a", "b", "c", "d", "e", "f">>

\* number.toString(radix), for a non-negative integer
RECURSIVE toString(_, _)
toString(number, radix) ==
  IF number < radix THEN <<Digits[number + 1]>>
  ELSE Append(toString(number \div radix, radix), Digits[(number % radix) + 1])

\* string.padStart(targetLength, padString), padString being one character
RECURSIVE padStart(_, _, _)
padStart(string, targetLength, padString) ==
  IF Len(string) >= targetLength THEN string
  ELSE padStart(<<padString>> \o string, targetLength, padString)

\* the letters parseInt reads as the digits ten to fifteen as well
UpperDigits == <<"A", "B", "C", "D", "E", "F">>

\* the value of a digit of parseInt, -1 for any other character
digitValue(character) ==
  IF \E d \in 1..Len(Digits) : Digits[d] = character
  THEN (CHOOSE d \in 1..Len(Digits) : Digits[d] = character) - 1
  ELSE IF \E d \in 1..Len(UpperDigits) : UpperDigits[d] = character
  THEN (CHOOSE d \in 1..Len(UpperDigits) : UpperDigits[d] = character) + 9
  ELSE -1

\* the digits parseInt has read so far: it stops at the first other character
RECURSIVE parseIntLoop(_, _, _, _)
parseIntLoop(string, radix, i, number) ==
  IF i > Len(string) \/ digitValue(string[i]) < 0 \/ digitValue(string[i]) >= radix
  THEN [read |-> i - 1, number |-> number]
  ELSE parseIntLoop(string, radix, i + 1, number * radix + digitValue(string[i]))

\* parseInt(string, radix) stored in a Uint8Array: NaN is stored as 0 (signs,
\* white space and a 0x prefix do not occur in the strings given here)
parseInt(string, radix) ==
  LET r == parseIntLoop(string, radix, 1, 0)
  IN IF r.read = 0 THEN 0 ELSE r.number % 256

\* range(Math.ceil(input.length / chunkLength)).map(...slice)
splitEvery(input, chunkLength) ==
  [index \in 1..((Len(input) + chunkLength - 1) \div chunkLength) |->
     SubSeq(input, (index - 1) * chunkLength + 1,
            Min((index - 1) * chunkLength + chunkLength, Len(input)))]

hexToBin(hex) ==
  LET chunks == splitEvery(hex, hexByteWidth)
  IN [i \in 1..Len(chunks) |-> parseInt(chunks[i], hexadecimal)]

\* as binToHex, without padStart
RECURSIVE binToHexUnpadded(_)
binToHexUnpadded(bytes) ==
  IF bytes = <<>> THEN <<>>
  ELSE binToHexUnpadded(Front(bytes)) \o toString(Last(bytes), hexadecimal)

\* bytes.reduce((str, byte) => str + byte.toString(16).padStart(2, '0'), '')
RECURSIVE binToHex(_)
binToHex(bytes) ==
  IF bytes = <<>> THEN <<>>
  ELSE binToHex(Front(bytes))
         \o padStart(toString(Last(bytes), hexadecimal), hexByteWidth, "0")

-----------------------------------------------------------------------------
(* The crypto providers and the encoding checks the crypto operators call *)

RECURSIVE SumBytes(_)
SumBytes(bytes) ==
  IF Len(bytes) = 0 THEN 0
  ELSE IF Len(bytes) = 1 THEN bytes[1]
  ELSE SumBytes(SubSeq(bytes, 1, Len(bytes) \div 2))
         + SumBytes(SubSeq(bytes, Len(bytes) \div 2 + 1, Len(bytes)))

\* sha256.hash: some fixed function from bytes to 32 bytes
sha256Hash(bytes) ==
  [i \in 1..32 |-> (SumBytes(bytes) + 7 * i + Len(bytes)) % 256]

\* ripemd160.hash: some fixed function from bytes to 20 bytes
ripemd160Hash(bytes) ==
  [i \in 1..20 |-> (3 * SumBytes(bytes) + 11 * i + Len(bytes)) % 256]

\* secp256k1.verifySignatureDERLowS: some fixed predicate of its three arguments
verifySignatureDERLowS(signature, publicKey, digest) ==
  (SumBytes(signature) + SumBytes(publicKey) + SumBytes(digest)) % 2 = 0

\* 33 bytes with prefix 0x02 or 0x03, or 65 bytes with prefix 0x04
isValidPublicKeyEncoding(publicKey) ==
  \/ Len(publicKey) = 33 /\ publicKey[1] \in {2, 3}
  \/ Len(publicKey) = 65 /\ publicKey[1] = 4

\* strict DER (BIP66) followed by one sighash-type byte of the permitted set;
\* the low-S comparison of the 256-bit S value is left to the provider
isValidSignatureEncoding(sig) ==
  /\ Len(sig) >= 9 /\ Len(sig) <= 73
  /\ sig[1] = 48
  /\ sig[2] = Len(sig) - 3
  /\ sig[3] = 2
  /\ LET lenR == sig[4]
     IN /\ lenR # 0
        /\ 5 + lenR < Len(sig)
        /\ sig[5] < signFlippingByte
        /\ ~(lenR > 1 /\ sig[5] = 0 /\ sig[6] < signFlippingByte)
        /\ sig[5 + lenR] = 2
        /\ LET lenS == sig[6 + lenR]
           IN /\ lenS # 0
              /\ lenR + lenS + 7 = Len(sig)
              /\ sig[7 + lenR] < signFlippingByte
              /\ ~(lenS > 1 /\ sig[7 + lenR] = 0 /\ sig[8 + lenR] < signFlippingByte)
  /\ Last(sig) \in {65, 66, 67, 193, 194, 195}

\* the DER body and the trailing sighash-type byte
decodeBitcoinSignature(sig) ==
  [signature |-> Front(sig), signingSerializationType |-> Last(sig)]

\* the preimage fields in the order of the Bitcoin Cash replay-protected sighash
generateBitcoinCashSigningSerialization(version, transactionOutpointsHash, transactionSequenceNumbersHash, outpointTransactionHash, outpointIndex, scriptCode, outpointValue, sequenceNumber, correspondingOutputHash, transactionOutputsHash, locktime, signingSerializationType) ==
  numberToBinUintLE(version, 4) \o transactionOutpointsHash
    \o transactionSequenceNumbersHash \o outpointTransactionHash
    \o numberToBinUintLE(outpointIndex, 4) \o scriptCode
    \o bigIntToBinUintLE(outpointValue, 8) \o numberToBinUintLE(sequenceNumber, 4)
    \o transactionOutputsHash \o numberToBinUintLE(locktime, 4)
    \o numberToBinUintLE(signingSerializationType, 4)

(* crypto.ts *)

opHash160(h, state) ==
  LET element == pop(h, Stack(h, state))
  IN IF element.r = Undefined
     THEN applyError(element.h, emptyStack, state)
     ELSE LET d == NewUint8Array(element.h, ripemd160Hash(sha256Hash(h.bufs[element.r])))
          IN [h |-> push(d.h, Stack(h, state), d.r), r |-> state]

\* opCheckSig with the two encoding checks in the other order
opCheckSigSignatureFirst(h, state) ==
  LET publicKey == pop(h, Stack(h, state))
      bitcoinEncodedSignature == pop(publicKey.h, Stack(h, state))
      h2 == bitcoinEncodedSignature.h
      o == h.objs[state]
  IN IF publicKey.r = Undefined \/ bitcoinEncodedSignature.r = Undefined
     THEN applyError(h2, emptyStack, state)
     ELSE IF ~isValidSignatureEncoding(h.bufs[bitcoinEncodedSignature.r])
     THEN applyError(h2, invalidSignatureEncoding, state)
     ELSE IF ~isValidPublicKeyEncoding(h.bufs[publicKey.r])
     THEN applyError(h2, invalidPublicKeyEncoding, state)
     ELSE
       LET script == SubSeq(Script(h, state), o.lastCodeSeparator + 2, Len(Script(h, state)))
           scriptCode == bigIntToBitcoinVarInt(Len(script)) \o script
           decoded == decodeBitcoinSignature(h.bufs[bitcoinEncodedSignature.r])
           serialization == generateBitcoinCashSigningSerialization(
             o.version, h.bufs[o.transactionOutpointsHash],
             h.bufs[o.transactionSequenceNumbersHash], h.bufs[o.outpointTransactionHash],
             o.outpointIndex, scriptCode, o.outpointValue, o.sequenceNumber,
             h.bufs[o.correspondingOutputHash], h.bufs[o.transactionOutputsHash],
             o.locktime, decoded.signingSerializationType)
           digest == sha256Hash(sha256Hash(serialization))
           result == NewUint8Array(h2, booleanToScriptNumber(
             verifySignatureDERLowS(decoded.signature, h.bufs[publicKey.r], digest)))
       IN [h |-> push(result.h, Stack(h, state), result.r), r |-> state]

opCheckSig(h, state) ==
  LET publicKey == pop(h, Stack(h, state))
      bitcoinEncodedSignature == pop(publicKey.h, Stack(h, state))
      h2 == bitcoinEncodedSignature.h
      o == h.objs[state]
  IN IF publicKey.r = Undefined \/ bitcoinEncodedSignature.r = Undefined
     THEN applyError(h2, emptyStack, state)
     ELSE IF ~isValidPublicKeyEncoding(h.bufs[publicKey.r])
     THEN applyError(h2, invalidPublicKeyEncoding, state)
     ELSE IF ~isValidSignatureEncoding(h.bufs[bitcoinEncodedSignature.r])
     THEN applyError(h2, invalidSignatureEncoding, state)
     ELSE
       LET script == SubSeq(Script(h, state), o.lastCodeSeparator + 2, Len(Script(h, state)))
           scriptCode == bigIntToBitcoinVarInt(Len(script)) \o script
           decoded == decodeBitcoinSignature(h.bufs[bitcoinEncodedSignature.r])
           serialization == generateBitcoinCashSigningSerialization(
             o.version, h.bufs[o.transactionOutpointsHash],
             h.bufs[o.transactionSequenceNumbersHash], h.bufs[o.outpointTransactionHash],
             o.outpointIndex, scriptCode, o.outpointValue, o.sequenceNumber,
             h.bufs[o.correspondingOutputHash], h.bufs[o.transactionOutputsHash],
             o.locktime, decoded.signingSerializationType)
           digest == sha256Hash(sha256Hash(serialization))
           result == NewUint8Array(h2, booleanToScriptNumber(
             verifySignatureDERLowS(decoded.signature, h.bufs[publicKey.r], digest)))
       IN [h |-> push(result.h, Stack(h, state), result.r), r |-> state]

-----------------------------------------------------------------------------
(* commonOperators: the operator table of the instruction set *)

\* the opcodes that have an entry in the table
definedOpCodes ==
  {pushNumberOpCodes[i] : i \in 1..Len(pushNumberOpCodes)}
    \cup {pushDataConstantOpCodes[i] : i \in 1..Len(pushDataConstantOpCodes)}
    \cup {OP_PUSHDATA1, OP_PUSHDATA2, OP_PUSHDATA4, OP_EQUAL, OP_EQUALVERIFY,
          OP_HASH160, OP_CHECKSIG, OP_VERIFY, OP_DUP}

\* the operation of the entry for `opcode`
commonOperators(opcode, h, state) ==
  CASE opcode \in {pushNumberOpCodes[i] : i \in 1..Len(pushNumberOpCodes)} ->
         pushNumberOperators(opcode, h, state)
    [] opcode \in {pushDataConstantOpCodes[i] : i \in 1..Len(pushDataConstantOpCodes)} ->
         pushDataConstantOperators(opcode, h, state)
    [] opcode = OP_PUSHDATA1 -> opPushData1(h, state)
    [] opcode = OP_PUSHDATA2 -> opPushData2(h, state)
    [] opcode = OP_PUSHDATA4 -> opPushData4(h, state)
    [] opcode = OP_EQUAL -> opEqual(h, state)
    [] opcode = OP_EQUALVERIFY -> opEqualVerify(h, state)
    [] opcode = OP_HASH160 -> opHash160(h, state)
    [] opcode = OP_CHECKSIG -> opCheckSig(h, state)
    [] opcode = OP_VERIFY -> opVerify(h, state)
    [] opcode = OP_DUP -> opDup(h, state)

-----------------------------------------------------------------------------
(* The virtual machine: stepMutate, step, and the loops of evaluate and debug *)

\* instructionSet[state.script[state.ip - 1]], the undefined operator when the
\* table has no entry (or the script no byte) there
dispatch(h, state) ==
  LET ip == h.objs[state].ip
      script == Script(h, state)
  IN IF ip - 1 < Len(script) /\ script[ip] \in definedOpCodes
     THEN commonOperators(script[ip], h, state)
     ELSE undefinedOperator(h, state)

\* before, then the operation of the operator of the byte `before` consumed
stepMutate(h, state) ==
  LET b == before(h, state)
  IN dispatch(b.h, b.r)

step(h, state) ==
  LET c == clone(h, state)
  IN stepMutate(c.h, c.r)

\* while (continue(state)) state = stepMutate(state)
RECURSIVE evaluateLoop(_, _)
evaluateLoop(h, state) ==
  IF continue(h, state)
  THEN LET r == stepMutate(h, state) IN evaluateLoop(r.h, r.r)
  ELSE [h |-> h, r |-> state]

evaluate(h, state) ==
  LET c == clone(h, state)
  IN evaluateLoop(c.h, c.r)

-----------------------------------------------------------------------------
(* The states a caller hands to the machine *)

\* the bytes enumerated scripts are made of: pushes of numbers and of data, a
\* failing and a non-failing consumer, and a byte with no operator
ScriptBytes == {OP_0, OP_DATA_1, OP_1, OP_VERIFY, OP_DUP, OP_RESERVED}

\* the byte arrays enumerated initial stacks are made of
StackElements == {<<>>, <<1>>}

SeqsUpTo(S, n) == UNION {[1..k -> S] : k \in 0..n}

\* longer scripts: an error with instructions left, a push whose payload is
\* itself an opcode byte, a comparison of two pushed values, an error followed
\* by a push of data
SampleScripts ==
  { <<OP_0, OP_VERIFY, OP_1>>,
    <<OP_DATA_1, OP_VERIFY, OP_DUP>>,
    <<OP_1, OP_DUP, OP_EQUAL>>,
    <<OP_1, OP_0, OP_EQUALVERIFY, OP_1>>,
    <<OP_1, OP_HASH160, OP_PUSHDATA1>>,
    <<OP_RESERVED, OP_DATA_1, OP_0>> }

Scripts == SeqsUpTo(ScriptBytes, MaxScriptLen) \cup SampleScripts

InitStacks == SeqsUpTo(StackElements, MaxStackDepth)

\* every hash of the external state has this many bytes
HashLen == 1

\* the default banner of debug
initialDescription == "Begin script evaluation."

\* the heap holding one program state: its script (a view `prefix` bytes into
\* its ArrayBuffer), its stack with one Uint8Array per element, the five hashes
\* and the numbers of program.state
InitialHeapAt(prefix, script, stack, ip, error) ==
  [bufs |-> <<script>> \o stack \o [k \in 1..5 |-> [i \in 1..HashLen |-> k]],
   offs |-> <<prefix>> \o [k \in 1..(Len(stack) + 5) |-> <<>>],
   arrs |-> << [j \in 1..Len(stack) |-> j + 1] >>,
   objs |-> << [ip |-> ip,
                script |-> 1,
                stack |-> 1,
                error |-> error,
                lastCodeSeparator |-> -1,
                blockHeight |-> 0,
                blockTime |-> 0,
                locktime |-> 0,
                version |-> 2,
                outpointIndex |-> 0,
                outpointValue |-> 0,
                sequenceNumber |-> 0,
                correspondingOutputHash |-> Len(stack) + 2,
                outpointTransactionHash |-> Len(stack) + 3,
                transactionOutpointsHash |-> Len(stack) + 4,
                transactionOutputsHash |-> Len(stack) + 5,
                transactionSequenceNumbersHash |-> Len(stack) + 6] >>]

\* the same, the script being a Uint8Array made from a list of bytes
InitialHeap(script, stack, ip, error) == InitialHeapAt(<<>>, script, stack, ip, error)

\* a state by value, as deepEqual sees it
Value(h, state) ==
  LET o == h.objs[state]
  IN [o EXCEPT !.script = h.bufs[o.script],
               !.stack = [j \in 1..Len(h.arrs[o.stack]) |-> h.bufs[h.arrs[o.stack][j]]],
               !.correspondingOutputHash = h.bufs[o.correspondingOutputHash],
               !.outpointTransactionHash = h.bufs[o.outpointTransactionHash],
               !.transactionOutpointsHash = h.bufs[o.transactionOutpointsHash],
               !.transactionOutputsHash = h.bufs[o.transactionOutputsHash],
               !.transactionSequenceNumbersHash = h.bufs[o.transactionSequenceNumbersHash]]

None == 0

-----------------------------------------------------------------------------
(* The calling program: debug(s), evaluate(s), step(s), step of the state   *)
(* evaluate returned, stepMutate(s), then clone(s) and a write to the clone *)

Init ==
  /\ \E script \in Scripts, stack \in InitStacks :
       \E ip \in 0..Len(script) :
         /\ heap = InitialHeap(script, stack, ip, NoError)
         /\ pre = Value(InitialHeap(script, stack, ip, NoError), 1)
  /\ s = 1
  /\ pc = "callDebug"
  /\ active = None
  /\ trace = <<>>
  /\ evalRet = None
  /\ stepRet = None
  /\ stepRet2 = None
  /\ evalRet2 = None
  /\ smRet = None
  /\ cl = None
  /\ num = 0
  /\ bin = <<>>
  /\ parsed = Number(0)
  /\ truthy = FALSE
  /\ program = None
  /\ unlockingScriptResult = <<>>
  /\ lockingScriptResult = <<>>
  /\ p2shScriptResult = <<>>
  /\ returned = <<>>
  /\ simpleProgram = None
  /\ simpleWorking = None
  /\ simpleTrace = <<>>
  /\ varIntValue = 0
  /\ varIntOffset = 0
  /\ varIntBin = <<>>
  /\ varIntRead = None
  /\ hexInput = <<>>
  /\ hexString = <<>>
  /\ hexDecoded = <<>>
  /\ hexAgain = <<>>

\* debug(s): clone, and record the banner with a snapshot of the state
DebugCall ==
  /\ pc = "callDebug"
  /\ LET c == clone(heap, s)
         snapshot == clone(c.h, c.r)
     IN /\ heap' = snapshot.h
        /\ active' = c.r
        /\ trace' = << [asm |-> "", description |-> initialDescription,
                        state |-> snapshot.r] >>
  /\ pc' = "debug"
  /\ UNCHANGED <<s, pre, evalRet, stepRet, stepRet2, evalRet2, smRet, cl, codecVars, programVars, simpleVars, utilsVars>>

\* one round of the loop of debug: stepMutate the working copy, record a clone
DebugStep ==
  /\ pc = "debug"
  /\ continue(heap, active)
  /\ LET r == stepMutate(heap, active)
         snapshot == clone(r.h, r.r)
     IN /\ heap' = snapshot.h
        /\ active' = r.r
        /\ trace' = Append(trace, [opcode |-> Script(heap, active)[heap.objs[active].ip + 1],
                                   state |-> snapshot.r])
  /\ UNCHANGED <<pc, s, pre, evalRet, stepRet, stepRet2, evalRet2, smRet, cl, codecVars, programVars, simpleVars, utilsVars>>

DebugReturn ==
  /\ pc = "debug"
  /\ ~continue(heap, active)
  /\ pc' = "callEvaluate"
  /\ active' = None
  /\ UNCHANGED <<heap, s, pre, trace, evalRet, stepRet, stepRet2, evalRet2, smRet, cl, codecVars, programVars, simpleVars, utilsVars>>

\* evaluate(s): clone
EvaluateCall ==
  /\ pc = "callEvaluate"
  /\ LET c == clone(heap, s)
     IN /\ heap' = c.h
        /\ active' = c.r
  /\ pc' = "evaluate"
  /\ UNCHANGED <<s, pre, trace, evalRet, stepRet, stepRet2, evalRet2, smRet, cl, codecVars, programVars, simpleVars, utilsVars>>

\* one round of the loop of evaluate
EvaluateStep ==
  /\ pc \in {"evaluate", "evaluateAgain"}
  /\ continue(heap, active)
  /\ LET r == stepMutate(heap, active)
     IN /\ heap' = r.h
        /\ active' = r.r
  /\ UNCHANGED <<pc, s, pre, trace, evalRet, stepRet, stepRet2, evalRet2, smRet, cl, codecVars, programVars, simpleVars, utilsVars>>

EvaluateReturn ==
  /\ pc = "evaluate"
  /\ ~continue(heap, active)
  /\ evalRet' = active
  /\ active' = None
  /\ pc' = "callStep"
  /\ UNCHANGED <<heap, s, pre, trace, stepRet, stepRet2, evalRet2, smRet, cl, codecVars, programVars, simpleVars, utilsVars>>

\* step(s)
StepCall ==
  /\ pc = "callStep"
  /\ LET r == step(heap, s)
     IN /\ heap' = r.h
        /\ stepRet' = r.r
  /\ pc' = "callStepAgain"
  /\ UNCHANGED <<s, pre, active, trace, evalRet, stepRet2, evalRet2, smRet, cl, codecVars, programVars, simpleVars, utilsVars>>

\* step(e), e the state evaluate(s) returned
StepAgainCall ==
  /\ pc = "callStepAgain"
  /\ LET r == step(heap, evalRet)
     IN /\ heap' = r.h
        /\ stepRet2' = r.r
  /\ pc' = "callEvaluateAgain"
  /\ UNCHANGED <<s, pre, active, trace, evalRet, stepRet, evalRet2, smRet, cl, codecVars, programVars, simpleVars, utilsVars>>

\* evaluate(e): clone
EvaluateAgainCall ==
  /\ pc = "callEvaluateAgain"
  /\ LET c == clone(heap, evalRet)
     IN /\ heap' = c.h
        /\ active' = c.r
  /\ pc' = "evaluateAgain"
  /\ UNCHANGED <<s, pre, trace, evalRet, stepRet, stepRet2, evalRet2, smRet, cl, codecVars, programVars, simpleVars, utilsVars>>

EvaluateAgainReturn ==
  /\ pc = "evaluateAgain"
  /\ ~continue(heap, active)
  /\ evalRet2' = active
  /\ active' = None
  /\ pc' = "callStepMutate"
  /\ UNCHANGED <<heap, s, pre, trace, evalRet, stepRet, stepRet2, smRet, cl, codecVars, programVars, simpleVars, utilsVars>>

\* stepMutate(s)
StepMutateCall ==
  /\ pc = "callStepMutate"
  /\ LET r == stepMutate(heap, s)
     IN /\ heap' = r.h
        /\ smRet' = r.r
  /\ pc' = "callClone"
  /\ UNCHANGED <<s, pre, active, trace, evalRet, stepRet, stepRet2, evalRet2, cl, codecVars, programVars, simpleVars, utilsVars>>

\* clone(s); the caller notes what s is now
CloneCall ==
  /\ pc = "callClone"
  /\ LET c == clone(heap, s)
     IN /\ heap' = c.h
        /\ cl' = c.r
  /\ pre' = Value(heap, s)
  /\ pc' = "write"
  /\ UNCHANGED <<s, active, trace, evalRet, stepRet, stepRet2, evalRet2, smRet, codecVars, programVars, simpleVars, utilsVars>>

\* clone.script[i] = another byte
WriteScript ==
  /\ pc = "write"
  /\ \E i \in 1..Len(Script(heap, cl)) :
       heap' = [heap EXCEPT !.bufs[heap.objs[cl].script][i] = (@ + 1) % 256]
  /\ pc' = "done"
  /\ UNCHANGED <<s, pre, active, trace, evalRet, stepRet, stepRet2, evalRet2, smRet, cl, codecVars, programVars, simpleVars, utilsVars>>

\* clone.stack[j][i] = another byte
WriteStackElement ==
  /\ pc = "write"
  /\ \E j \in 1..Len(heap.arrs[Stack(heap, cl)]) :
       \E i \in 1..Len(heap.bufs[heap.arrs[Stack(heap, cl)][j]]) :
         heap' = [heap EXCEPT !.bufs[heap.arrs[Stack(heap, cl)][j]][i] = (@ + 1) % 256]
  /\ pc' = "done"
  /\ UNCHANGED <<s, pre, active, trace, evalRet, stepRet, stepRet2, evalRet2, smRet, cl, codecVars, programVars, simpleVars, utilsVars>>

\* clone.<hash>[i] = another byte, for each of the five hashes
WriteHash ==
  /\ pc = "write"
  /\ \E hash \in {heap.objs[cl].correspondingOutputHash,
                  heap.objs[cl].outpointTransactionHash,
                  heap.objs[cl].transactionOutpointsHash,
                  heap.objs[cl].transactionOutputsHash,
                  heap.objs[cl].transactionSequenceNumbersHash} :
       \E i \in 1..Len(heap.bufs[hash]) :
         heap' = [heap EXCEPT !.bufs[hash][i] = (@ + 1) % 256]
  /\ pc' = "done"
  /\ UNCHANGED <<s, pre, active, trace, evalRet, stepRet, stepRet2, evalRet2, smRet, cl, codecVars, programVars, simpleVars, utilsVars>>

\* clone.stack.push(new Uint8Array([1]))
WritePush ==
  /\ pc = "write"
  /\ LET b == NewUint8Array(heap, <<1>>)
     IN heap' = push(b.h, Stack(heap, cl), b.r)
  /\ pc' = "done"
  /\ UNCHANGED <<s, pre, active, trace, evalRet, stepRet, stepRet2, evalRet2, smRet, cl, codecVars, programVars, simpleVars, utilsVars>>

\* clone.stack.pop()
WritePop ==
  /\ pc = "write"
  /\ Len(heap.arrs[Stack(heap, cl)]) > 0
  /\ heap' = pop(heap, Stack(heap, cl)).h
  /\ pc' = "done"
  /\ UNCHANGED <<s, pre, active, trace, evalRet, stepRet, stepRet2, evalRet2, smRet, cl, codecVars, programVars, simpleVars, utilsVars>>

Next ==
  \/ DebugCall
  \/ DebugStep
  \/ DebugReturn
  \/ EvaluateCall
  \/ EvaluateStep
  \/ EvaluateReturn
  \/ StepCall
  \/ StepAgainCall
  \/ EvaluateAgainCall
  \/ EvaluateAgainReturn
  \/ StepMutateCall
  \/ CloneCall
  \/ WriteScript
  \/ WriteStackElement
  \/ WriteHash
  \/ WritePush
  \/ WritePop

Spec == Init /\ [][Next]_vars

-----------------------------------------------------------------------------
(* The Script Number codec on its own: an integer is encoded and the result *)
(* parsed, or a byte array is parsed                                        *)

\* the exponents e at which the encoding changes width or sign handling;
\* the largest Script Number is 2^31 - 1
WidthBoundaries == {7, 8, 15, 16, 23, 24, 31}

\* 2^e - 1
AllOnes(e) == Pow(2, e - 1) + (Pow(2, e - 1) - 1)

\* the integers encoded: those around 0 and, of either sign, around each
\* 2^e - 1, as far as they lie within the Script Number range
NumInputs ==
  ((-NumSpread)..NumSpread)
    \cup UNION { {AllOnes(e) - d, -(AllOnes(e) - d)} :
                   e \in WidthBoundaries, d \in 0..NumSpread }
    \cup UNION { {AllOnes(e) + d, -(AllOnes(e) + d)} :
                   e \in WidthBoundaries \ {31}, d \in 1..NumSpread }

\* the bytes parsed arrays are made of: zero, the sign bit alone, and values on
\* either side of it
BinBytes == {0, 1, 127, 128, 129, 255}

BinInputs == SeqsUpTo(BinBytes, MaxBinLen)

InitCodec ==
  /\ \/ /\ num \in NumInputs
        /\ bin = <<>>
        /\ pc = "encode"
     \/ /\ num = 0
        /\ bin \in BinInputs
        /\ pc = "parse"
  /\ parsed = Number(0)
  /\ truthy = FALSE
  /\ program = None
  /\ unlockingScriptResult = <<>>
  /\ lockingScriptResult = <<>>
  /\ p2shScriptResult = <<>>
  /\ returned = <<>>
  /\ simpleProgram = None
  /\ simpleWorking = None
  /\ simpleTrace = <<>>
  /\ varIntValue = 0
  /\ varIntOffset = 0
  /\ varIntBin = <<>>
  /\ varIntRead = None
  /\ hexInput = <<>>
  /\ hexString = <<>>
  /\ hexDecoded = <<>>
  /\ hexAgain = <<>>
  /\ heap = EmptyHeap
  /\ s = None
  /\ pre = None
  /\ active = None
  /\ trace = <<>>
  /\ evalRet = None
  /\ stepRet = None
  /\ stepRet2 = None
  /\ evalRet2 = None
  /\ smRet = None
  /\ cl = None

\* bin = bigIntToScriptNumber(num)
Encode ==
  /\ pc = "encode"
  /\ bin' = bigIntToScriptNumber(num)
  /\ pc' = "parseEncoded"
  /\ UNCHANGED <<num, parsed, truthy, vmVars, programVars, simpleVars, utilsVars>>

\* parsed = parseBytesAsScriptNumber(bin), bin an encoding
ParseEncoded ==
  /\ pc = "parseEncoded"
  /\ parsed' = parseBytesAsScriptNumber(bin)
  /\ pc' = "roundTripped"
  /\ UNCHANGED <<num, bin, truthy, vmVars, programVars, simpleVars, utilsVars>>

\* parsed = parseBytesAsScriptNumber(bin), bin any byte array
Parse ==
  /\ pc = "parse"
  /\ parsed' = parseBytesAsScriptNumber(bin)
  /\ pc' = "parsed"
  /\ UNCHANGED <<num, bin, truthy, vmVars, programVars, simpleVars, utilsVars>>

\* truthy = stackElementIsTruthy(bin), bin any byte array
Truthy ==
  /\ pc = "parse"
  /\ truthy' = stackElementIsTruthy(bin)
  /\ pc' = "cast"
  /\ UNCHANGED <<num, bin, parsed, vmVars, programVars, simpleVars, utilsVars>>

NextCodec ==
  \/ Encode
  \/ ParseEncoded
  \/ Parse
  \/ Truthy

SpecCodec == InitCodec /\ [][NextCodec]_vars

-----------------------------------------------------------------------------
(* One instruction on its own: `before`, then the operation of the operator *)
(* of the byte consumed, on a state the caller owns; the caller then writes *)
(* a byte of an element of the resulting stack                              *)

\* range(length, begin), stored in a Uint8Array
range(length, begin) == [i \in 1..length |-> (begin + i - 1) % 256]

\* a state to execute one instruction of: the script (a view `prefix` bytes into
\* its ArrayBuffer), the position of the opcode, and the stack
Case(prefix, script, ip, stack) ==
  [prefix |-> prefix, script |-> script, ip |-> ip, stack |-> stack]

\* the elements the stacks of the stack operators are made of: empty, zero,
\* negative zero in one and two bytes, one, and one with a trailing zero byte
OpElements == {<<>>, <<0>>, <<1>>, <<128>>, <<0, 128>>, <<1, 0>>}

OpStacks == SeqsUpTo(OpElements, MaxOpDepth)

\* the stacks the push operators start from
PushStacks == {<<>>, << <<42>> >>, << <<>>, <<1, 2>> >>}

\* a script that is its own ArrayBuffer, and one that begins one byte into it
ViewPrefixes == {<<>>, <<0>>}

PushNumberCases ==
  UNION { { Case(<<>>, <<pushNumberOpCodes[i]>>, 0, stack),
            Case(<<>>, <<pushNumberOpCodes[i], pushNumberOpCodes[i]>>, 1, stack) } :
          i \in 1..Len(pushNumberOpCodes), stack \in PushStacks }

\* OP_DATA_n followed by one byte less than n, by n, and by one more than n bytes
PushDataConstantCases ==
  UNION { { Case(prefix, <<pushDataConstantOpCodes[n]>> \o range(m, 1), 0, stack) :
              m \in {n - 1, n, n + 1} }
            \cup { Case(prefix, <<OP_1, pushDataConstantOpCodes[n]>> \o range(n, 1) \o <<OP_1>>,
                        1, stack) } :
          n \in 1..Len(pushDataConstantOpCodes), prefix \in ViewPrefixes,
          stack \in {<<>>, << <<42>> >>} }

\* the length fields tried with OP_PUSHDATA1, OP_PUSHDATA2 and OP_PUSHDATA4:
\* either side of each minimum and of the maximum push size
PushDataLengths(lengthBits) ==
  CASE lengthBits = 1 -> {0, 1, 74, 75, 76, 77, 100, 255}
    [] lengthBits = 2 -> {0, 75, 76, 255, 256, 257, 519, 520, 521}
    [] lengthBits = 4 -> {0, 255, 256, 520, 521, 65535, 65536}

PushDataOpCode(lengthBits) ==
  CASE lengthBits = 1 -> OP_PUSHDATA1
    [] lengthBits = 2 -> OP_PUSHDATA2
    [] lengthBits = 4 -> OP_PUSHDATA4

\* the opcode, a length field, and a payload of one byte less than the length,
\* of the length, and of one byte more
PushDataCasesOf(w, length) ==
  { Case(prefix, <<PushDataOpCode(w)>> \o numberToBinUintLE(length, w) \o range(m, 0),
         0, stack) :
      m \in {length - 1, length, length + 1} \ {-1},
      prefix \in IF length <= maximumPushSize + 1 THEN ViewPrefixes ELSE {<<>>},
      stack \in {<<>>, << <<42>> >>} }

PushDataCases ==
  UNION { UNION { PushDataCasesOf(w, length) : length \in PushDataLengths(w) } :
          w \in {1, 2, 4} }

\* the opcode and fewer bytes than its length field has, and OP_PUSHDATA4 with
\* a length of 2^31 and more
PushDataTruncatedCases ==
  { Case(<<>>, <<PushDataOpCode(w)>> \o [i \in 1..k |-> 1], 0, <<>>) :
      w \in {1, 2, 4}, k \in 0..3 }
    \cup { Case(<<>>, <<OP_PUSHDATA4, 0, 0, 0, 128>> \o range(m, 0), 0, <<>>) : m \in {0, 3} }
    \cup { Case(<<>>, <<OP_PUSHDATA4, 255, 255, 255, 255, 7>>, 0, <<>>) }

StackOperatorCases ==
  { Case(<<>>, <<opcode>>, 0, stack) :
      opcode \in {OP_DUP, OP_VERIFY, OP_EQUAL, OP_EQUALVERIFY}, stack \in OpStacks }

\* public keys: compressed and uncompressed ones, one with an unknown prefix,
\* one a byte short, and the empty element
PublicKeys ==
  {<<2>> \o range(32, 1), <<4>> \o range(64, 1), <<5>> \o range(32, 1), range(32, 2), <<>>}

\* DER signatures of one-byte R and S followed by a signing serialization type
Signature(r, sigS, type) == <<48, 6, 2, 1, r, 2, 1, sigS, type>>

\* signatures: two the encoding check accepts, one with a negative R, one
\* with an unknown signing serialization type, and the empty element
Signatures ==
  {Signature(1, 1, 65), Signature(2, 1, 65), Signature(128, 1, 65),
   Signature(1, 1, 0), <<>>}

\* OP_CHECKSIG and OP_HASH160 on no element, on one, and on a signature below a
\* public key, with and without an element underneath
CryptoCases ==
  { Case(<<>>, <<opcode>>, 0, stack) :
      opcode \in {OP_CHECKSIG, OP_HASH160},
      stack \in {<<>>} \cup { <<k>> : k \in PublicKeys }
                  \cup { <<sig, k>> : sig \in Signatures, k \in PublicKeys }
                  \cup { << <<1>>, sig, k>> : sig \in Signatures, k \in PublicKeys } }

\* every byte the table has no entry for, alone and as the second opcode
UndefinedCases ==
  UNION { { Case(<<>>, <<opcode>>, 0, stack), Case(<<>>, <<OP_1, opcode, OP_1>>, 1, stack) } :
          opcode \in Byte \ definedOpCodes, stack \in {<<>>, << <<>>, <<1, 2>> >>} }

OpCases ==
  PushNumberCases \cup PushDataConstantCases \cup PushDataCases
    \cup PushDataTruncatedCases \cup StackOperatorCases \cup CryptoCases
    \cup UndefinedCases

InitOps ==
  /\ \E c \in OpCases :
       /\ heap = InitialHeapAt(c.prefix, c.script, c.stack, c.ip, NoError)
       /\ pre = Value(InitialHeapAt(c.prefix, c.script, c.stack, c.ip, NoError), 1)
  /\ s = 1
  /\ pc = "before"
  /\ active = None
  /\ trace = <<>>
  /\ evalRet = None
  /\ stepRet = None
  /\ stepRet2 = None
  /\ evalRet2 = None
  /\ smRet = None
  /\ cl = None
  /\ num = 0
  /\ bin = <<>>
  /\ parsed = Number(0)
  /\ truthy = FALSE
  /\ program = None
  /\ unlockingScriptResult = <<>>
  /\ lockingScriptResult = <<>>
  /\ p2shScriptResult = <<>>
  /\ returned = <<>>
  /\ simpleProgram = None
  /\ simpleWorking = None
  /\ simpleTrace = <<>>
  /\ varIntValue = 0
  /\ varIntOffset = 0
  /\ varIntBin = <<>>
  /\ varIntRead = None
  /\ hexInput = <<>>
  /\ hexString = <<>>
  /\ hexDecoded = <<>>
  /\ hexAgain = <<>>

\* instructionSet.before(state)
Before ==
  /\ pc = "before"
  /\ heap' = before(heap, s).h
  /\ pc' = "operate"
  /\ UNCHANGED <<s, pre, active, trace, evalRet, stepRet, stepRet2, evalRet2, smRet, cl, codecVars, programVars, simpleVars, utilsVars>>

\* the operation of the operator of the byte `before` consumed, the undefined
\* operator when the table has no entry for it
Operate ==
  /\ pc = "operate"
  /\ LET r == dispatch(heap, s)
     IN /\ heap' = r.h
        /\ smRet' = r.r
  /\ pc' = "operated"
  /\ UNCHANGED <<s, pre, active, trace, evalRet, stepRet, stepRet2, evalRet2, cl, codecVars, programVars, simpleVars, utilsVars>>

\* the caller changes the first or the last byte of an element of the stack of
\* the state the operation returned
WriteOperatedElement ==
  /\ pc = "operated"
  /\ \E j \in 1..Len(heap.arrs[Stack(heap, smRet)]) :
       LET element == heap.arrs[Stack(heap, smRet)][j]
       IN \E k \in {1, Len(heap.bufs[element])} \cap (1..Len(heap.bufs[element])) :
            heap' = [heap EXCEPT !.bufs[element][k] = (@ + 1) % 256]
  /\ pc' = "written"
  /\ UNCHANGED <<s, pre, active, trace, evalRet, stepRet, stepRet2, evalRet2, smRet, cl, codecVars, programVars, simpleVars, utilsVars>>

NextOps ==
  \/ Before
  \/ Operate
  \/ WriteOperatedElement

SpecOps == InitOps /\ [][NextOps]_vars

-----------------------------------------------------------------------------
(* debugBitcoinCashAuthenticationProgram: the unlocking pass, the locking   *)
(* pass on the stack the unlocking pass left, and for a P2SH locking script *)
(* the pass of the redeem script                                            *)

\* the loop of debug: stepMutate the working copy, record a clone of it
RECURSIVE debugLoop(_, _, _)
debugLoop(h, state, steps) ==
  IF continue(h, state)
  THEN LET r == stepMutate(h, state)
           snapshot == clone(r.h, r.r)
       IN debugLoop(snapshot.h, r.r,
                    Append(steps, [opcode |-> Script(h, state)[h.objs[state].ip + 1],
                                   state |-> snapshot.r]))
  ELSE [h |-> h, r |-> steps]

\* vm.debug(state, description): clone, record the banner with a snapshot, loop
debug(h, state, description) ==
  LET c == clone(h, state)
      snapshot == clone(c.h, c.r)
  IN debugLoop(snapshot.h, c.r,
               << [asm |-> "", description |-> description, state |-> snapshot.r] >>)

PayToScriptHash == [length |-> 23, lastElement |-> 22]

isPayToScriptHash(lockingScript) ==
  /\ Len(lockingScript) = PayToScriptHash.length
  /\ lockingScript[0 + 1] = OP_HASH160
  /\ lockingScript[1 + 1] = OP_DATA_20
  /\ lockingScript[PayToScriptHash.lastElement + 1] = OP_EQUAL

\* script.every(value => value < OP_16): every byte of the script is tested
isPushOnly(script) == \A i \in 1..Len(script) : script[i] < OP_16

\* { ip: 0, lastCodeSeparator: -1, stack, ...program.state, script }
passState(h, stack, script) ==
  LET e == h.objs[program.state]
  IN NewObject(h, [ip |-> 0,
                   lastCodeSeparator |-> -1,
                   stack |-> stack,
                   error |-> NoError,
                   blockHeight |-> e.blockHeight,
                   blockTime |-> e.blockTime,
                   locktime |-> e.locktime,
                   version |-> e.version,
                   outpointIndex |-> e.outpointIndex,
                   outpointValue |-> e.outpointValue,
                   sequenceNumber |-> e.sequenceNumber,
                   correspondingOutputHash |-> e.correspondingOutputHash,
                   outpointTransactionHash |-> e.outpointTransactionHash,
                   transactionOutpointsHash |-> e.transactionOutpointsHash,
                   transactionOutputsHash |-> e.transactionOutputsHash,
                   transactionSequenceNumbersHash |-> e.transactionSequenceNumbersHash,
                   script |-> script])

\* the state of the last entry of a trace
FinalState(steps) == Last(steps).state

\* the banners and the descriptions of the synthetic steps
unlockingBanner == "Begin unlocking script evaluation."
lockingBanner == "Begin locking script evaluation."
p2shBanner == "Begin P2SH script evaluation."
mustBePushOnly == "P2SH error: unlockingScript must be push-only."
mustNotLeaveAnEmptyStack == "P2SH error: unlockingScript must not leave an empty stack."

\* the unlocking scripts are made of these opcodes: pushes of numbers and of
\* one byte, the last push opcode, two operators, and an undefined opcode
MaxUnlockingLen == 2
UnlockingBytes == {OP_0, OP_1, OP_DATA_1, OP_16, OP_DUP, OP_VERIFY, OP_RESERVED}

\* further unlocking scripts: redeem scripts that run on an element underneath
\* them, a redeem script of two opcodes, a push by OP_PUSHDATA1, and pushes
\* that lack their length or a part of their payload; and pushes of a
\* signature and of a public key
SampleUnlockingScripts ==
  {<<OP_1, OP_DATA_1, OP_DUP>>, <<OP_1, OP_DATA_1, OP_VERIFY>>,
   <<OP_1, OP_DATA_1, OP_1>>, <<OP_DATA_1 + 1, OP_1, OP_1>>, <<OP_PUSHDATA1, 1, OP_1>>,
   <<OP_PUSHDATA1>>, <<OP_PUSHDATA1, 2, OP_1>>, <<OP_PUSHDATA2, 1>>}
    \cup { <<9>> \o Signature(r, 1, 65) \o <<33, 2>> \o range(32, 1) : r \in {1, 2} }

UnlockingScripts == SeqsUpTo(UnlockingBytes, MaxUnlockingLen) \cup SampleUnlockingScripts

\* OP_PUSHDATA2 of the maximum push size and of one byte more
LargestPushes ==
  { <<OP_PUSHDATA2>> \o numberToBinUintLE(length, 2) \o range(length, 0) :
      length \in {maximumPushSize, maximumPushSize + 1} }

\* OP_HASH160 <hash> OP_EQUAL
PayToScriptHashTemplate(hash) == <<OP_HASH160, OP_DATA_20>> \o hash \o <<OP_EQUAL>>

\* the redeem scripts the P2SH locking scripts commit to
RedeemScripts == {<<>>, <<OP_1, OP_1>>} \cup { <<b>> : b \in UnlockingBytes }

\* locking scripts: the template around the hash of each redeem script and
\* around a hash of zeros; scripts of 23 bytes that miss the template by one
\* byte; and short scripts
LockingScripts ==
  { PayToScriptHashTemplate(ripemd160Hash(sha256Hash(r))) : r \in RedeemScripts }
    \cup { PayToScriptHashTemplate([i \in 1..20 |-> 0]),
           <<OP_DUP, OP_DATA_20>> \o range(20, 1) \o <<OP_EQUAL>>,
           <<OP_HASH160, OP_DATA_20 + 1>> \o range(20, 1) \o <<OP_EQUAL>>,
           <<OP_HASH160, OP_DATA_20>> \o range(20, 1) \o <<OP_EQUALVERIFY>>,
           <<OP_HASH160, OP_DATA_20>> \o range(20, 1) \o <<OP_EQUAL, OP_1>>,
           <<>>, <<OP_1>>, <<OP_DUP>>, <<OP_VERIFY>>, <<OP_EQUAL>>, <<OP_RESERVED>>,
           <<OP_CHECKSIG>>, <<OP_CODESEPARATOR>>, <<OP_CHECKSIG, OP_CODESEPARATOR>>,
           <<OP_CODESEPARATOR, OP_CHECKSIG>> }

\* the heap holding an AuthenticationProgram: the two scripts and program.state
ProgramHeap(unlockingScript, lockingScript) ==
  [bufs |-> <<unlockingScript, lockingScript>> \o [k \in 1..5 |-> [i \in 1..HashLen |-> k]],
   offs |-> [k \in 1..7 |-> <<>>],
   arrs |-> <<>>,
   objs |-> << [blockHeight |-> 0,
                blockTime |-> 0,
                locktime |-> 0,
                version |-> 2,
                outpointIndex |-> 0,
                outpointValue |-> 0,
                sequenceNumber |-> 0,
                correspondingOutputHash |-> 3,
                outpointTransactionHash |-> 4,
                transactionOutpointsHash |-> 5,
                transactionOutputsHash |-> 6,
                transactionSequenceNumbersHash |-> 7] >>]

InitProgram ==
  /\ \/ \E u \in UnlockingScripts, l \in LockingScripts : heap = ProgramHeap(u, l)
     \/ \E u \in LargestPushes, l \in {<<OP_DUP>>, <<OP_HASH160>>} : heap = ProgramHeap(u, l)
  /\ program = [unlockingScript |-> 1, lockingScript |-> 2, state |-> 1]
  /\ pc = "unlockingPass"
  /\ unlockingScriptResult = <<>>
  /\ lockingScriptResult = <<>>
  /\ p2shScriptResult = <<>>
  /\ returned = <<>>
  /\ simpleProgram = None
  /\ simpleWorking = None
  /\ simpleTrace = <<>>
  /\ varIntValue = 0
  /\ varIntOffset = 0
  /\ varIntBin = <<>>
  /\ varIntRead = None
  /\ hexInput = <<>>
  /\ hexString = <<>>
  /\ hexDecoded = <<>>
  /\ hexAgain = <<>>
  /\ s = None
  /\ pre = None
  /\ active = None
  /\ trace = <<>>
  /\ evalRet = None
  /\ stepRet = None
  /\ stepRet2 = None
  /\ evalRet2 = None
  /\ smRet = None
  /\ cl = None
  /\ num = 0
  /\ bin = <<>>
  /\ parsed = Number(0)
  /\ truthy = FALSE

\* the unlocking pass without the early return
UnlockingPassWithoutEarlyReturn ==
  /\ pc = "unlockingPass"
  /\ LET stack == NewArray(heap, <<>>)
         state == passState(stack.h, stack.r, program.unlockingScript)
         d == debug(state.h, state.r, unlockingBanner)
     IN /\ heap' = d.h
        /\ unlockingScriptResult' = d.r
  /\ pc' = "lockingPass"
  /\ UNCHANGED <<s, pre, active, trace, evalRet, stepRet, stepRet2, evalRet2, smRet, cl>>
  /\ UNCHANGED <<program, lockingScriptResult, p2shScriptResult, returned, codecVars, utilsVars, simpleVars>>

\* the unlocking pass, and the early return when it ends with an error
UnlockingPass ==
  /\ pc = "unlockingPass"
  /\ LET stack == NewArray(heap, <<>>)
         state == passState(stack.h, stack.r, program.unlockingScript)
         d == debug(state.h, state.r, unlockingBanner)
     IN /\ heap' = d.h
        /\ unlockingScriptResult' = d.r
        /\ IF d.h.objs[FinalState(d.r)].error # NoError
           THEN returned' = d.r /\ pc' = "returned"
           ELSE returned' = returned /\ pc' = "lockingPass"
  /\ UNCHANGED <<s, pre, active, trace, evalRet, stepRet, stepRet2, evalRet2, smRet, cl>>
  /\ UNCHANGED <<program, lockingScriptResult, p2shScriptResult, codecVars, utilsVars, simpleVars>>

\* the locking pass continuing from the final state of the unlocking pass
LockingPassOnUnlockingState ==
  /\ pc = "lockingPass"
  /\ LET state == NewObject(heap, [heap.objs[FinalState(unlockingScriptResult)]
                                     EXCEPT !.script = program.lockingScript])
         d == debug(state.h, state.r, lockingBanner)
     IN /\ heap' = d.h
        /\ lockingScriptResult' = d.r
  /\ pc' = "payToScriptHash"
  /\ UNCHANGED <<s, pre, active, trace, evalRet, stepRet, stepRet2, evalRet2, smRet, cl>>
  /\ UNCHANGED <<program, unlockingScriptResult, p2shScriptResult, returned, codecVars, utilsVars, simpleVars>>

\* the locking pass, on the stack of the final state of the unlocking pass
LockingPass ==
  /\ pc = "lockingPass"
  /\ LET state == passState(heap, Stack(heap, FinalState(unlockingScriptResult)),
                            program.lockingScript)
         d == debug(state.h, state.r, lockingBanner)
     IN /\ heap' = d.h
        /\ lockingScriptResult' = d.r
  /\ pc' = "payToScriptHash"
  /\ UNCHANGED <<s, pre, active, trace, evalRet, stepRet, stepRet2, evalRet2, smRet, cl>>
  /\ UNCHANGED <<program, unlockingScriptResult, p2shScriptResult, returned, codecVars, utilsVars, simpleVars>>

\* the rest of the composer: the P2SH gate, the pass of the redeem script, and
\* the concatenation of the traces
PayToScriptHashPass ==
  /\ pc = "payToScriptHash"
  /\ LET unlockingScriptFinalState == FinalState(unlockingScriptResult)
         lockingScriptFinalState == FinalState(lockingScriptResult)
     IN IF isPayToScriptHash(heap.bufs[program.lockingScript])
        THEN IF ~isPushOnly(heap.bufs[program.unlockingScript])
             THEN /\ returned' = unlockingScriptResult \o lockingScriptResult
                       \o << [asm |-> "[P2SH error]", description |-> mustBePushOnly,
                              state |-> lockingScriptFinalState] >>
                  /\ UNCHANGED <<heap, p2shScriptResult>>
             ELSE IF Len(heap.arrs[Stack(heap, unlockingScriptFinalState)]) = 0
             THEN /\ returned' = unlockingScriptResult \o lockingScriptResult
                       \o << [asm |-> "[P2SH error]", description |-> mustNotLeaveAnEmptyStack,
                              state |-> lockingScriptFinalState] >>
                  /\ UNCHANGED <<heap, p2shScriptResult>>
             ELSE LET p2shStack == cloneStack(heap, Stack(heap, unlockingScriptFinalState))
                      p2shScript == pop(p2shStack.h, p2shStack.r)
                      state == passState(p2shScript.h, p2shStack.r, p2shScript.r)
                      d == debug(state.h, state.r, p2shBanner)
                  IN /\ heap' = d.h
                     /\ p2shScriptResult' = d.r
                     /\ returned' = unlockingScriptResult \o lockingScriptResult \o d.r
        ELSE /\ returned' = unlockingScriptResult \o lockingScriptResult
             /\ UNCHANGED <<heap, p2shScriptResult>>
  /\ pc' = "returned"
  /\ UNCHANGED <<s, pre, active, trace, evalRet, stepRet, stepRet2, evalRet2, smRet, cl>>
  /\ UNCHANGED <<program, unlockingScriptResult, lockingScriptResult, codecVars, utilsVars, simpleVars>>

NextProgram ==
  \/ UnlockingPass
  \/ LockingPass
  \/ PayToScriptHashPass

SpecProgram == InitProgram /\ [][NextProgram]_vars

-----------------------------------------------------------------------------
(* The VarInt and hexadecimal utilities: an integer is encoded, stored at an *)
(* offset and read back; a Uint8Array is encoded, decoded and encoded again  *)

\* the encoding is stored behind at most this many bytes
MaxOffset == 2

\* the Uint8Arrays encoded have at most this many bytes
MaxHexLen == 3

\* integers on either side of the limits of the VarInt widths, and larger ones
\* whose encoding can be read back within the integers of TLC
VarIntValues ==
  (0..NumSpread) \cup ((Uint8MaxValue - NumSpread)..(Uint16Prefix + NumSpread))
    \cup ((Uint16MaxValue - NumSpread)..(Uint16MaxValue + 1 + NumSpread))
    \cup (Pow(2, 24)..(Pow(2, 24) + NumSpread)) \cup {Pow(2, 30)}

\* bytes of one and of two digits, with digits of both kinds
HexBytes == {0, 1, 9, 10, 15, 16, 42, 100, 255}

\* every Uint8Array of one byte, and the arrays of up to MaxHexLen of HexBytes
HexInputs == { <<b>> : b \in Byte } \cup SeqsUpTo(HexBytes, MaxHexLen)

InitUtils ==
  /\ \/ /\ pc = "bigIntToBitcoinVarInt"
        /\ varIntValue \in VarIntValues
        /\ varIntOffset \in 0..MaxOffset
        /\ hexInput = <<>>
     \/ /\ pc = "binToHex"
        /\ varIntValue = 0
        /\ varIntOffset = 0
        /\ hexInput \in HexInputs
  /\ varIntBin = <<>>
  /\ varIntRead = None
  /\ hexString = <<>>
  /\ hexDecoded = <<>>
  /\ hexAgain = <<>>
  /\ heap = EmptyHeap
  /\ s = None
  /\ pre = None
  /\ active = None
  /\ trace = <<>>
  /\ evalRet = None
  /\ stepRet = None
  /\ stepRet2 = None
  /\ evalRet2 = None
  /\ smRet = None
  /\ cl = None
  /\ num = 0
  /\ bin = <<>>
  /\ parsed = Number(0)
  /\ truthy = FALSE
  /\ program = None
  /\ unlockingScriptResult = <<>>
  /\ lockingScriptResult = <<>>
  /\ p2shScriptResult = <<>>
  /\ returned = <<>>
  /\ simpleProgram = None
  /\ simpleWorking = None
  /\ simpleTrace = <<>>

\* the caller stores bigIntToBitcoinVarInt(value) at the offset of a
\* Uint8Array, with or without a byte after it
StoreVarInt ==
  /\ pc = "bigIntToBitcoinVarInt"
  /\ \E rest \in {<<>>, <<1>>} :
       varIntBin' = [i \in 1..varIntOffset |-> Uint64Prefix]
                      \o bigIntToBitcoinVarInt(varIntValue) \o rest
  /\ pc' = "readBitcoinVarInt"
  /\ UNCHANGED <<varIntValue, varIntOffset, varIntRead, hexInput, hexString, hexDecoded, hexAgain>>
  /\ UNCHANGED <<vmVars, codecVars, programVars, simpleVars>>

ReadVarInt ==
  /\ pc = "readBitcoinVarInt"
  /\ varIntRead' = readBitcoinVarInt(varIntBin, varIntOffset)
  /\ pc' = "read"
  /\ UNCHANGED <<varIntValue, varIntOffset, varIntBin, hexInput, hexString, hexDecoded, hexAgain>>
  /\ UNCHANGED <<vmVars, codecVars, programVars, simpleVars>>

BinToHex ==
  /\ pc = "binToHex"
  /\ hexString' = binToHex(hexInput)
  /\ pc' = "hexToBin"
  /\ UNCHANGED <<varIntValue, varIntOffset, varIntBin, varIntRead, hexInput, hexDecoded, hexAgain>>
  /\ UNCHANGED <<vmVars, codecVars, programVars, simpleVars>>

HexToBin ==
  /\ pc = "hexToBin"
  /\ hexDecoded' = hexToBin(hexString)
  /\ pc' = "binToHexAgain"
  /\ UNCHANGED <<varIntValue, varIntOffset, varIntBin, varIntRead, hexInput, hexString, hexAgain>>
  /\ UNCHANGED <<vmVars, codecVars, programVars, simpleVars>>

BinToHexAgain ==
  /\ pc = "binToHexAgain"
  /\ hexAgain' = binToHex(hexDecoded)
  /\ pc' = "inverse"
  /\ UNCHANGED <<varIntValue, varIntOffset, varIntBin, varIntRead, hexInput, hexString, hexDecoded>>
  /\ UNCHANGED <<vmVars, codecVars, programVars, simpleVars>>

NextUtils ==
  \/ StoreVarInt
  \/ ReadVarInt
  \/ BinToHex
  \/ HexToBin
  \/ BinToHexAgain

SpecUtils == InitUtils /\ [][NextUtils]_vars

\* ---------------------------------------------------------------------------
\* The simple instruction set of the virtual machine's tests, and vm.debug
\* over it. States are records; a stack holds numbers.
\* ---------------------------------------------------------------------------

simpleOps == [OP_0 |-> 0, OP_INCREMENT |-> 1, OP_DECREMENT |-> 2, OP_ADD |-> 3, OP_CODESEPARATOR |-> 171]

SimpleError == [UNDEFINED |-> "The program called an undefined opcode.", EMPTY_STACK |-> "The program tried to pop from an empty stack."]

\* a number as an operator's template literal interpolates it, `undefined`
\* (what pop returns for an empty array) included
Interpolated(number) == [defined |-> TRUE, value |-> number]
PoppedUndefined == [defined |-> FALSE, value |-> 0]

\* a string: its literal text with ${} at the interpolations, and their values
Text(template, values) == [template |-> template, values |-> values]

\* stack.pop(): the value returned and the array left
simplePop(stack) ==
  IF Len(stack) = 0 THEN [popped |-> PoppedUndefined, stack |-> stack]
  ELSE [popped |-> Interpolated(Last(stack)), stack |-> SubSeq(stack, 1, Len(stack) - 1)]

simpleBefore(state) == [state EXCEPT !.ip = @ + 1]

simpleClone(state) ==
  [error |-> state.error, ip |-> state.ip, script |-> state.script, stack |-> state.stack]

simpleContinue(state) == state.error = NoError /\ state.ip < Len(state.script)

\* operation of the operator of `opcode`
simpleOperation(opcode, state) ==
  LET top == simplePop(state.stack)
      second == simplePop(top.stack)
  IN CASE opcode = simpleOps.OP_0 -> [state EXCEPT !.stack = Append(@, 0)]
       [] opcode = simpleOps.OP_INCREMENT ->
            IF ~top.popped.defined
            THEN [state EXCEPT !.stack = top.stack, !.error = SimpleError.EMPTY_STACK]
            ELSE [state EXCEPT !.stack = Append(top.stack, top.popped.value + 1)]
       [] opcode = simpleOps.OP_DECREMENT ->
            IF ~top.popped.defined
            THEN [state EXCEPT !.stack = top.stack, !.error = SimpleError.EMPTY_STACK]
            ELSE [state EXCEPT !.stack = Append(top.stack, top.popped.value - 1)]
       [] opcode = simpleOps.OP_ADD ->
            IF ~top.popped.defined \/ ~second.popped.defined
            THEN [state EXCEPT !.stack = second.stack, !.error = SimpleError.EMPTY_STACK]
            ELSE [state EXCEPT !.stack = Append(second.stack,
                                                top.popped.value + second.popped.value)]
       [] opcode = simpleOps.OP_CODESEPARATOR -> state
       [] OTHER -> [state EXCEPT !.error = SimpleError.UNDEFINED]

\* asm of the operator of `opcode`: the text, and the state argument as the
\* evaluation leaves it
simpleAsm(opcode, state) ==
  CASE opcode = simpleOps.OP_0 -> [text |-> Text("OP_0", <<>>), state |-> state]
    [] opcode = simpleOps.OP_INCREMENT -> [text |-> Text("OP_INCREMENT", <<>>), state |-> state]
    [] opcode = simpleOps.OP_DECREMENT -> [text |-> Text("OP_DECREMENT", <<>>), state |-> state]
    [] opcode = simpleOps.OP_ADD -> [text |-> Text("OP_ADD", <<>>), state |-> state]
    [] opcode = simpleOps.OP_CODESEPARATOR ->
         [text |-> Text("OP_CODESEPARATOR(ip: ${})", <<Interpolated(state.ip)>>),
          state |-> state]
    [] OTHER -> [text |-> Text("undefined", <<>>), state |-> state]

\* description of the operator of `opcode`: the text, and the state argument
\* as the evaluation leaves it (that of OP_ADD pops twice from it)
simpleDescription(opcode, state) ==
  LET top == simplePop(state.stack)
      second == simplePop(top.stack)
  IN CASE opcode = simpleOps.OP_0 ->
            [text |-> Text("Push a 0 onto the stack.", <<>>), state |-> state]
       [] opcode = simpleOps.OP_INCREMENT ->
            [text |-> Text("Add 1 to the top stack item.", <<>>), state |-> state]
       [] opcode = simpleOps.OP_DECREMENT ->
            [text |-> Text("Subtract 1 from the top stack item.", <<>>), state |-> state]
       [] opcode = simpleOps.OP_ADD ->
            [text |-> Text("Pop the top two items off the stack (${}, ${}) and push their sum onto the stack.",
                           <<top.popped, second.popped>>),
             state |-> [state EXCEPT !.stack = second.stack]]
       [] opcode = simpleOps.OP_CODESEPARATOR ->
            [text |-> Text("Used internally to separate the unlocking and locking scripts.", <<>>),
             state |-> state]
       [] OTHER -> [text |-> Text("Error: the program called an undefined opcode.", <<>>),
                    state |-> state]

\* the script of the tests: the unlocking script, OP_CODESEPARATOR, the locking script
serializeScript(unlockingScript, lockingScript) ==
  unlockingScript \o <<simpleOps.OP_CODESEPARATOR>> \o lockingScript

TestedScript ==
  serializeScript(<<simpleOps.OP_0, simpleOps.OP_INCREMENT, simpleOps.OP_INCREMENT>>,
                  <<simpleOps.OP_0, simpleOps.OP_DECREMENT, simpleOps.OP_ADD>>)

\* the value vm.debug is tested to return for the tested script
ExpectedDebug ==
  LET recorded(asm, description, ip, stack) ==
        [asm |-> asm, description |-> description,
         state |-> [error |-> NoError, ip |-> ip, script |-> TestedScript, stack |-> stack]]
  IN << recorded(Text("", <<>>), Text("Begin script evaluation.", <<>>), 0, <<>>),
        recorded(Text("OP_0", <<>>), Text("Push a 0 onto the stack.", <<>>), 1, <<0>>),
        recorded(Text("OP_INCREMENT", <<>>), Text("Add 1 to the top stack item.", <<>>), 2, <<1>>),
        recorded(Text("OP_INCREMENT", <<>>), Text("Add 1 to the top stack item.", <<>>), 3, <<2>>),
        recorded(Text("OP_CODESEPARATOR(ip: ${})", <<Interpolated(4)>>),
                 Text("Used internally to separate the unlocking and locking scripts.", <<>>),
                 4, <<2>>),
        recorded(Text("OP_0", <<>>), Text("Push a 0 onto the stack.", <<>>), 5, <<2, 0>>),
        recorded(Text("OP_DECREMENT", <<>>), Text("Subtract 1 from the top stack item.", <<>>),
                 6, <<2, -1>>),
        recorded(Text("OP_ADD", <<>>),
                 Text("Pop the top two items off the stack (${}, ${}) and push their sum onto the stack.",
                      <<Interpolated(-1), Interpolated(2)>>),
                 7, <<1>>) >>

MaxSimpleLen == 3

\* an opcode of each operator and one without an operator
SimpleBytes == {0, 1, 2, 3, 171, 9}

SimpleScripts == SeqsUpTo(SimpleBytes, MaxSimpleLen) \cup {TestedScript}

InitSimple ==
  /\ pc = "simpleDebug"
  /\ \E script \in SimpleScripts, stack \in {<<>>, <<2, -1>>} :
       simpleProgram = [error |-> NoError, ip |-> 0, script |-> script, stack |-> stack]
  /\ simpleWorking = None
  /\ simpleTrace = <<>>
  /\ heap = EmptyHeap
  /\ s = None
  /\ pre = None
  /\ active = None
  /\ trace = <<>>
  /\ evalRet = None
  /\ stepRet = None
  /\ stepRet2 = None
  /\ evalRet2 = None
  /\ smRet = None
  /\ cl = None
  /\ num = 0
  /\ bin = <<>>
  /\ parsed = Number(0)
  /\ truthy = FALSE
  /\ program = None
  /\ unlockingScriptResult = <<>>
  /\ lockingScriptResult = <<>>
  /\ p2shScriptResult = <<>>
  /\ returned = <<>>
  /\ varIntValue = 0
  /\ varIntOffset = 0
  /\ varIntBin = <<>>
  /\ varIntRead = None
  /\ hexInput = <<>>
  /\ hexString = <<>>
  /\ hexDecoded = <<>>
  /\ hexAgain = <<>>

\* vm.debug(state): the state is cloned and the initial step recorded
SimpleDebugCall ==
  /\ pc = "simpleDebug"
  /\ simpleWorking' = simpleClone(simpleProgram)
  /\ simpleTrace' = << [asm |-> Text("", <<>>),
                        description |-> Text("Begin script evaluation.", <<>>),
                        state |-> simpleClone(simpleProgram)] >>
  /\ pc' = "simpleLoop"
  /\ UNCHANGED <<simpleProgram, vmVars, codecVars, programVars, utilsVars>>

\* the step of one instruction: `before`, then asm and description evaluated
\* on a copy, then the operation, then the step recorded with a clone of the
\* state
simpleStep(working) ==
  LET opcode == working.script[working.ip + 1]
      began == simpleBefore(working)
      after == simpleOperation(opcode, began)
  IN [working |-> after,
      entry |-> [asm |-> simpleAsm(opcode, simpleClone(began)).text,
                 description |-> simpleDescription(opcode, simpleClone(began)).text,
                 state |-> simpleClone(after)]]

SimpleDebugStep ==
  /\ pc = "simpleLoop"
  /\ simpleContinue(simpleWorking)
  /\ simpleWorking' = simpleStep(simpleWorking).working
  /\ simpleTrace' = Append(simpleTrace, simpleStep(simpleWorking).entry)
  /\ UNCHANGED <<pc, simpleProgram, vmVars, codecVars, programVars, utilsVars>>

SimpleDebugReturn ==
  /\ pc = "simpleLoop"
  /\ ~simpleContinue(simpleWorking)
  /\ pc' = "simpleDebugged"
  /\ UNCHANGED <<simpleVars, vmVars, codecVars, programVars, utilsVars>>

NextSimple ==
  \/ SimpleDebugCall
  \/ SimpleDebugStep
  \/ SimpleDebugReturn

SpecSimple == InitSimple /\ [][NextSimple]_vars

-----------------------------------------------------------------------------
(* Properties of the virtual machine *)

Error(state) == heap.objs[state].error
Ip(state) == heap.objs[state].ip

\* the positions at which s is still the state the caller made
BeforeStepMutate ==
  {"callDebug", "debug", "callEvaluate", "evaluate", "callStep", "callStepAgain",
   "callEvaluateAgain", "evaluateAgain", "callStepMutate"}

\* continue would be false: an error is set or ip has reached the end
Halted(state) == Error(state) # NoError \/ Ip(state) >= Len(Script(heap, state))

\* C1: step, evaluate and debug do not modify the state object the caller
\* passes in: while and after debug(s), evaluate(s) and step(s) run, s has the
\* ip, script, stack elements, error and external-state fields it had before.
C1_CallerStateUnchanged ==
  pc \in BeforeStepMutate => Value(heap, s) = pre

\* all three calls have returned, each having executed something, on a caller
\* state with a non-empty stack
C1_Witness ==
  /\ pc = "callStepMutate"
  /\ Len(pre.stack) > 0
  /\ Len(trace) > 2
  /\ Value(heap, evalRet).stack # pre.stack
  /\ Ip(stepRet) > pre.ip
  /\ Value(heap, stepRet).stack # pre.stack

\* C2: evaluate(s) equals, field by field, the state of the last entry of
\* debug(s).
C2_EvaluateEqualsLastDebugState ==
  evalRet # None => Value(heap, evalRet) = Value(heap, Last(trace).state)

\* both have run on a script of several instructions that ends in an error
C2_Witness ==
  /\ evalRet # None
  /\ Len(trace) > 2
  /\ Error(evalRet) # NoError
  /\ Len(Value(heap, evalRet).stack) > 0

\* C3: the first error latches: in a debug trace only the last entry can carry
\* an error, and once the working copy of evaluate or debug carries an error the
\* loop dispatches nothing more: its next step is the return, with the heap (so
\* the error and the stack the failing instruction left) as it is.
C3_FirstErrorLatches ==
  /\ [](\A i \in 1..Len(trace) : Error(trace[i].state) # NoError => i = Len(trace))
  /\ [][(pc \in {"debug", "evaluate", "evaluateAgain"} /\ Error(active) # NoError)
          => (active' = None /\ heap' = heap /\ trace' = trace)]_vars

\* debug has returned with an error in its last entry although bytes of the
\* script were left to run
C3_Witness ==
  /\ pc = "callEvaluate"
  /\ Len(trace) > 1
  /\ Error(Last(trace).state) # NoError
  /\ Ip(Last(trace).state) < Len(Script(heap, Last(trace).state))

\* C4 as stated: for a state e in which an operator has set error, step(e)
\* returns a state equal to e in ip, stack, script and error.
C4_StepAfterErrorChangesNothing ==
  (stepRet2 # None /\ Error(evalRet) # NoError)
    => Value(heap, stepRet2) = Value(heap, evalRet)

\* C4 as amended: for a state e in which an operator has set error,
\* evaluate(e) returns a state equal to e field by field (continue is false, no
\* instruction is dispatched); step(e) is not guarded by continue: it
\* increments ip and dispatches the byte it was at, so it returns a state that
\* still carries an error and whose ip is at least e.ip + 1.
C4_EvaluateAfterErrorChangesNothing ==
  /\ (evalRet2 # None /\ Error(evalRet) # NoError)
       => Value(heap, evalRet2) = Value(heap, evalRet)
  /\ (stepRet2 # None /\ Error(evalRet) # NoError)
       => /\ Ip(stepRet2) >= Ip(evalRet) + 1
          /\ Error(stepRet2) # NoError

\* evaluate has run again on an errored state that has script bytes left
C4_Witness ==
  /\ evalRet2 # None
  /\ Error(evalRet) # NoError
  /\ Ip(evalRet) < Len(Script(heap, evalRet))

\* C5: execution halts iff error is set or ip >= script.length: the state
\* evaluate returns is halted, every entry of a debug trace but the last is not
\* halted (no error, ip < script.length), and once debug has returned the last
\* entry is halted.
C5_HaltsIffErrorOrEnd ==
  /\ evalRet # None => Halted(evalRet)
  /\ \A i \in 1..(Len(trace) - 1) : ~Halted(trace[i].state)
  /\ (trace # <<>> /\ pc # "debug") => Halted(Last(trace).state)

\* evaluate and debug have run a script of several instructions to its end
\* without an error
C5_Witness ==
  /\ evalRet # None
  /\ Len(trace) > 2
  /\ Error(evalRet) = NoError
  /\ Ip(evalRet) = Len(Script(heap, evalRet))
  /\ Ip(evalRet) > 1

\* C6: clone isolation: after c = clone(s), a write to a byte of c.script, of
\* an element of c.stack or of a hash of c, and a push to or pop from c.stack,
\* leave s as it was.
C6_CloneIsolation ==
  pc = "done" => Value(heap, s) = pre

\* C7: stepMutate mutates the caller's state in place: after r = stepMutate(s),
\* s equals r in ip, stack and error, also when the operation fails.
C7_StepMutateInPlace ==
  pc = "callClone" =>
    /\ Ip(s) = Ip(smRet)
    /\ Value(heap, s).stack = Value(heap, smRet).stack
    /\ Error(s) = Error(smRet)

\* the state step(state) returns, by value
StepValue(state) ==
  LET r == step(heap, state)
  IN Value(r.h, r.r)

\* C8: the trace of debug(s) starts with the banner (asm '', the initial
\* description, a state equal to s) and has one entry per executed instruction
\* after it; the state of each later entry equals step of the state of the
\* entry before it, and this stays so while later instructions run.
C8_DebugTraceIsStepChain ==
  (trace # <<>> /\ pc # "done") =>
    /\ trace[1].asm = ""
    /\ trace[1].description = initialDescription
    /\ pc \in BeforeStepMutate => Value(heap, trace[1].state) = pre
    /\ \A i \in 2..Len(trace) :
         /\ "opcode" \in DOMAIN trace[i]
         /\ Value(heap, trace[i].state) = StepValue(trace[i - 1].state)

\* debug has returned a trace of the banner and at least three instructions,
\* the caller's stack not empty
C8_Witness ==
  /\ pc = "callEvaluate"
  /\ Len(trace) > 3
  /\ Len(pre.stack) > 0

-----------------------------------------------------------------------------
(* Properties of the Script Number codec *)

\* C9: parseBytesAsScriptNumber(bigIntToScriptNumber(n)) = n for every integer
\* n with |n| <= 2^31 - 1, and bigIntToScriptNumber(0) is the empty byte array.
C9_ScriptNumberRoundTrip ==
  /\ (pc \in {"parseEncoded", "roundTripped"} /\ num = 0) => bin = <<>>
  /\ pc = "roundTripped" => parsed = Number(num)

\* the most negative Script Number has gone through both functions
C9_Witness ==
  /\ pc = "roundTripped"
  /\ num = -AllOnes(31)
  /\ Len(bin) = 4

\* the number the top byte stands for once its 0x80 bit is cleared
LowSevenBits(byte) == IF byte >= 128 THEN byte - 128 ELSE byte

\* the little-endian magnitude of bytes, the 0x80 bit of the top byte cleared
RECURSIVE Magnitude(_)
Magnitude(bytes) ==
  IF Len(bytes) = 1 THEN LowSevenBits(bytes[1])
  ELSE bytes[1] + 256 * Magnitude(Tail(bytes))

\* what the classification of C10 gives for bytes
Classified(bytes) ==
  IF bytes = <<>> THEN [error |-> NoError, value |-> 0]
  ELSE IF Len(bytes) > 4 THEN [error |-> outOfRange, value |-> 0]
  ELSE IF /\ LowSevenBits(Last(bytes)) = 0
          /\ (Len(bytes) <= 1 \/ bytes[Len(bytes) - 1] < 128)
       THEN [error |-> requiresMinimal, value |-> 0]
  ELSE [error |-> NoError,
        value |-> IF Last(bytes) >= 128 THEN -Magnitude(bytes) ELSE Magnitude(bytes)]

\* C10: parseBytesAsScriptNumber classifies every byte array: empty gives 0;
\* more than 4 bytes gives OutOfRange; else a top byte with low 7 bits zero and
\* (length <= 1 or second-top byte's high bit clear) gives RequiresMinimal; else
\* the little-endian magnitude with the top byte's 0x80 bit cleared, negated
\* iff that bit was set.  The errors are values of the result.
C10_ParseClassifies ==
  pc = "parsed" => parsed = Classified(bin)

\* a four-byte array with the sign bit set has been parsed to a negative number
C10_Witness ==
  /\ pc = "parsed"
  /\ Len(bin) = 4
  /\ Last(bin) > 128
  /\ parsed.error = NoError
  /\ parsed.value < 0

\* the indices of the non-zero bytes of bin
NonZeroBytes == {i \in 1..Len(bin) : bin[i] # 0}

\* C11: stackElementIsTruthy(e) is true iff e has some non-zero byte and it is
\* not the case that its only non-zero byte is a final byte equal to 0x80; the
\* empty array, all-zero arrays and every negative zero are false.
C11_TruthyIffNotZeroOrNegativeZero ==
  pc = "cast" =>
    truthy = (/\ NonZeroBytes # {}
              /\ ~(NonZeroBytes = {Len(bin)} /\ bin[Len(bin)] = 128))

\* a negative zero of several bytes has been cast, and found false
C11_Witness ==
  /\ pc = "cast"
  /\ Len(bin) > 1
  /\ NonZeroBytes = {Len(bin)}
  /\ bin[Len(bin)] = 128
  /\ truthy = FALSE

-----------------------------------------------------------------------------
(* Properties of single instructions *)

\* the opcode executed, the state by value after its operation, and the
\* position after the opcode
Executed == pre.script[pre.ip + 1]
Post == Value(heap, smRet)
PostOpcodeIp == pre.ip + 1

\* the Script Number encoding of n, for -1 <= n <= 16
SmallScriptNumber(n) == IF n = -1 THEN <<129>> ELSE IF n = 0 THEN <<>> ELSE <<n>>

\* C12: each of the 18 opcodes of pushNumberOpCodes, at list index i (from 0),
\* sets no error, advances ip by exactly 1, and appends the Script Number
\* encoding of i - 1 to the stack, the elements already there unchanged.
C12_PushNumberPushesIndexMinusOne ==
  \A i \in 0..17 :
    (pc = "operated" /\ Executed = pushNumberOpCodes[i + 1])
      => /\ Post.error = NoError
         /\ Post.ip = pre.ip + 1
         /\ Post.stack = Append(pre.stack, SmallScriptNumber(i - 1))

\* OP_1NEGATE has been executed on a stack that held elements
C12_Witness ==
  /\ pc = "operated"
  /\ Executed = OP_1NEGATE
  /\ Len(pre.stack) = 2
  /\ Post.stack = Append(pre.stack, <<129>>)

\* C13: for every n in 1..75, OP_DATA_n at post-opcode position ip: if
\* ip + n <= script.length it appends script[ip..ip+n) to the stack, sets ip to
\* ip + n and leaves the earlier elements unchanged (no error is set);
\* otherwise it sets error MalformedPush and pushes nothing.
C13_PushDataConstant ==
  \A n \in 1..75 :
    (pc = "operated" /\ Executed = n)
      => IF PostOpcodeIp + n <= Len(pre.script)
         THEN /\ Post.stack = Append(pre.stack,
                                SubSeq(pre.script, PostOpcodeIp + 1, PostOpcodeIp + n))
              /\ Post.ip = PostOpcodeIp + n
              /\ Post.error = NoError
         ELSE /\ Post.error = malformedPush
              /\ Post.stack = pre.stack

\* OP_DATA_75 has pushed the 75 bytes that end the script, onto a stack that
\* held an element
C13_Witness ==
  /\ pc = "operated"
  /\ Executed = OP_DATA_75
  /\ Len(pre.script) = 76
  /\ Len(pre.stack) = 1
  /\ Len(Post.stack) = 2
  /\ Len(Post.stack[2]) = 75
  /\ Post.ip = 76

\* the width of the length field of the PUSHDATA opcode executed
Width ==
  CASE Executed = OP_PUSHDATA1 -> 1
    [] Executed = OP_PUSHDATA2 -> 2
    [] Executed = OP_PUSHDATA4 -> 4

\* the little-endian value of the `w` bytes of the script after the opcode
LengthField(w) ==
  LET b == SubSeq(pre.script, PostOpcodeIp + 1, PostOpcodeIp + w)
  IN IF w = 4 /\ b[4] >= 128 THEN HugeLength
     ELSE b[1] + (IF w > 1 THEN 256 * b[2] ELSE 0)
               + (IF w = 4 THEN 65536 * b[3] + 16777216 * b[4] ELSE 0)

\* minimum(1) = 76, minimum(2) = 256, minimum(4) = 65536
StatedMinimum(w) == CASE w = 1 -> 76 [] w = 2 -> 256 [] w = 4 -> 65536

\* the script holds the length field and the payload it announces
HoldsLengthAndPayload(w) ==
  /\ PostOpcodeIp + w <= Len(pre.script)
  /\ PostOpcodeIp + w + LengthField(w) <= Len(pre.script)

\* the script begins at the first byte of its ArrayBuffer
OwnBuffer == heap.offs[heap.objs[s].script] = <<>>

\* C14: a PUSHDATA1/2/4 instruction whose script holds the full length field
\* and payload and whose length is below minimum(W) fails with NonMinimalPush
\* and pushes nothing (stated here for scripts that begin their ArrayBuffer).
C14_BelowMinimumIsNonMinimalPush ==
  (/\ pc = "operated"
   /\ OwnBuffer
   /\ Executed \in {OP_PUSHDATA1, OP_PUSHDATA2, OP_PUSHDATA4}
   /\ HoldsLengthAndPayload(Width)
   /\ LengthField(Width) < StatedMinimum(Width))
    => /\ Post.error = nonMinimalPush
       /\ Post.stack = pre.stack

\* C15: a PUSHDATA1 or PUSHDATA2 instruction whose length field L satisfies
\* minimum(W) <= L <= 520 and ip + W + L <= script.length sets no error,
\* appends exactly script[ip+W .. ip+W+L) to the stack, sets ip to ip+W+L, and
\* leaves the earlier elements unchanged.
C15_PushDataPushesPayload ==
  (/\ pc = "operated"
   /\ Executed \in {OP_PUSHDATA1, OP_PUSHDATA2}
   /\ HoldsLengthAndPayload(Width)
   /\ StatedMinimum(Width) <= LengthField(Width)
   /\ LengthField(Width) <= 520)
    => /\ Post.error = NoError
       /\ Post.stack = Append(pre.stack,
                          SubSeq(pre.script, PostOpcodeIp + Width + 1,
                                 PostOpcodeIp + Width + LengthField(Width)))
       /\ Post.ip = PostOpcodeIp + Width + LengthField(Width)

\* C16: OP_PUSHDATA4 never succeeds: for every script and position, executing
\* it ends with error MalformedPush, NonMinimalPush or ExceedsMaximumPush and
\* with nothing pushed.
C16_PushData4NeverSucceeds ==
  (pc = "operated" /\ Executed = OP_PUSHDATA4)
    => /\ Post.error \in {malformedPush, nonMinimalPush, exceedsMaximumPush}
       /\ Post.stack = pre.stack

\* OP_PUSHDATA4 has been executed with a minimal length and its whole payload
\* in the script, and has been refused for the size of the push
C16_Witness ==
  /\ pc = "operated"
  /\ Executed = OP_PUSHDATA4
  /\ HoldsLengthAndPayload(4)
  /\ LengthField(4) >= StatedMinimum(4)
  /\ Post.error = exceedsMaximumPush

\* the stack OP_DUP is to leave: the stack before with its top repeated
Duplicated == Append(pre.stack, Last(pre.stack))

\* C17: OP_DUP on an empty stack sets error EmptyStack and leaves the stack
\* empty; on a non-empty stack it sets no error and leaves the stack one
\* deeper, the new top byte-identical to the previous top and the elements
\* below unchanged; the new top is a copy of its own: a write to a byte of one
\* element of the resulting stack changes that element and no other.
C17_DupPushesIndependentCopy ==
  (pc \in {"operated", "written"} /\ Executed = OP_DUP)
    => IF pre.stack = <<>>
       THEN Post.error = emptyStack /\ Post.stack = <<>>
       ELSE /\ Post.error = NoError
            /\ Len(Post.stack) = Len(pre.stack) + 1
            /\ pc = "operated" => Post.stack = Duplicated
            /\ pc = "written" =>
                 Cardinality({j \in 1..Len(Duplicated) : Post.stack[j] # Duplicated[j]}) = 1

\* after OP_DUP on a stack of two elements, a byte of the new top has been
\* written: the element below it still is the previous top
C17_Witness ==
  /\ pc = "written"
  /\ Executed = OP_DUP
  /\ Len(pre.stack) = 2
  /\ Post.stack[3] # pre.stack[2]
  /\ Post.stack[2] = pre.stack[2]
  /\ Post.stack[1] = pre.stack[1]

\* e has a non-zero byte and is not zeros followed by a final 0x80
IsTruthy(e) ==
  LET nonZero == {i \in 1..Len(e) : e[i] # 0}
  IN nonZero # {} /\ ~(nonZero = {Len(e)} /\ e[Len(e)] = 128)

\* C18: OP_VERIFY pops the top element: on an empty stack the error is
\* EmptyStack; if the popped element is not truthy the error is FailedVerify;
\* if it is truthy no error is set and the remaining stack is unchanged.
C18_VerifyPopsAndChecksTruthiness ==
  (pc = "operated" /\ Executed = OP_VERIFY)
    => IF pre.stack = <<>>
       THEN Post.error = emptyStack /\ Post.stack = <<>>
       ELSE /\ Post.stack = Front(pre.stack)
            /\ Post.error = IF IsTruthy(Last(pre.stack)) THEN NoError ELSE failedVerify

\* OP_VERIFY has popped a negative zero of two bytes off a stack of two
\* elements and failed
C18_Witness ==
  /\ pc = "operated"
  /\ Executed = OP_VERIFY
  /\ Len(pre.stack) = 2
  /\ Last(pre.stack) = <<0, 128>>
  /\ Post.error = failedVerify
  /\ Len(Post.stack) = 1

\* C19: OP_EQUAL with fewer than two stack elements sets error EmptyStack; with
\* at least two (empty byte arrays included) it removes the top two and pushes
\* Script Number 1 (bytes [0x01]) iff they have the same length and bytes,
\* otherwise Script Number 0 (the empty array), the lower elements unchanged.
C19_EqualComparesTopTwo ==
  (pc = "operated" /\ Executed = OP_EQUAL)
    => IF Len(pre.stack) < 2
       THEN Post.error = emptyStack
       ELSE /\ Post.error = NoError
            /\ Post.stack =
                 Append(SubSeq(pre.stack, 1, Len(pre.stack) - 2),
                        IF pre.stack[Len(pre.stack)] = pre.stack[Len(pre.stack) - 1]
                        THEN <<1>> ELSE <<>>)

\* OP_EQUAL has compared two empty byte arrays above a third element, and
\* pushed 1
C19_Witness ==
  /\ pc = "operated"
  /\ Executed = OP_EQUAL
  /\ Len(pre.stack) = 3
  /\ pre.stack[2] = <<>>
  /\ pre.stack[3] = <<>>
  /\ Post.stack = <<pre.stack[1], <<1>>>>

\* the state evaluate returns for the script [OP_EQUAL, OP_VERIFY] started on
\* the stack the instruction executed was started on
EqualThenVerify ==
  LET h == InitialHeap(<<OP_EQUAL, OP_VERIFY>>, pre.stack, 0, NoError)
      e == evaluate(h, 1)
  IN Value(e.h, e.r)

\* C20: OP_EQUALVERIFY is OP_EQUAL followed by OP_VERIFY: for every stack,
\* executing the single opcode OP_EQUALVERIFY yields the same final stack and
\* the same error (none, EmptyStack or FailedVerify) as evaluating the script
\* [OP_EQUAL, OP_VERIFY] from the same stack.
C20_EqualVerifyIsEqualThenVerify ==
  (pc = "operated" /\ Executed = OP_EQUALVERIFY)
    => /\ Post.stack = EqualThenVerify.stack
       /\ Post.error = EqualThenVerify.error
       /\ Post.error \in {NoError, emptyStack, failedVerify}

\* OP_EQUALVERIFY has failed on two different elements above a third, as the
\* two-opcode script does
C20_Witness ==
  /\ pc = "operated"
  /\ Executed = OP_EQUALVERIFY
  /\ Len(pre.stack) = 3
  /\ pre.stack[2] # pre.stack[3]
  /\ Post.error = failedVerify
  /\ EqualThenVerify.error = failedVerify
  /\ Post.stack = <<pre.stack[1]>>

\* the double SHA-256 of the signing serialization of the state the
\* instruction was started on, for the signature `sig`
SigningDigest(sig) ==
  sha256Hash(sha256Hash(generateBitcoinCashSigningSerialization(
    pre.version, pre.transactionOutpointsHash, pre.transactionSequenceNumbersHash,
    pre.outpointTransactionHash, pre.outpointIndex,
    bigIntToBitcoinVarInt(Len(pre.script)) \o pre.script, pre.outpointValue,
    pre.sequenceNumber, pre.correspondingOutputHash, pre.transactionOutputsHash,
    pre.locktime, Last(sig))))

\* C21: OP_CHECKSIG pops the public key first and the signature second. With
\* fewer than two elements the error is EmptyStack; else an invalid public key
\* encoding gives InvalidPublicKeyEncoding (even if the signature is invalid
\* too); else an invalid signature encoding gives InvalidSignatureEncoding;
\* otherwise there is no error and exactly one element is pushed: Script
\* Number 1 iff the provider verifies the signature, else Script Number 0.
C21_CheckSigPrecedence ==
  (pc = "operated" /\ Executed = OP_CHECKSIG)
    => IF Len(pre.stack) < 2
       THEN Post.error = emptyStack
       ELSE LET publicKey == pre.stack[Len(pre.stack)]
                sig == pre.stack[Len(pre.stack) - 1]
            IN IF ~isValidPublicKeyEncoding(publicKey)
               THEN Post.error = invalidPublicKeyEncoding
               ELSE IF ~isValidSignatureEncoding(sig)
               THEN Post.error = invalidSignatureEncoding
               ELSE /\ Post.error = NoError
                    /\ Post.stack =
                         Append(SubSeq(pre.stack, 1, Len(pre.stack) - 2),
                                IF verifySignatureDERLowS(Front(sig), publicKey,
                                                          SigningDigest(sig))
                                THEN <<1>> ELSE <<>>)

\* OP_CHECKSIG has met an invalid public key above an invalid signature and
\* reported the public key
C21_Witness ==
  /\ pc = "operated"
  /\ Executed = OP_CHECKSIG
  /\ Len(pre.stack) = 3
  /\ ~isValidPublicKeyEncoding(pre.stack[3])
  /\ ~isValidSignatureEncoding(pre.stack[2])
  /\ Post.error = invalidPublicKeyEncoding

\* the opcode bytes the instruction set is stated to have an entry for
StatedOpCodes ==
  (0..78) \cup {79} \cup (81..96) \cup {105, 118, 135, 136, 169, 172}

\* C22: every opcode byte with no entry in the instruction set (any byte other
\* than 0x00..0x4e, 0x4f, 0x51..0x60, 0x69, 0x76, 0x87, 0x88, 0xa9, 0xac; for
\* example 0x50, 0x61, 0x6a, 0xab) is dispatched to the undefined operator,
\* which sets error UnknownOpcode and leaves the stack unchanged.
C22_UndefinedOpcodeIsUnknown ==
  /\ definedOpCodes = StatedOpCodes
  /\ (pc = "operated" /\ Executed \notin StatedOpCodes)
       => /\ Post.error = unknownOpcode
          /\ Post.stack = pre.stack

\* OP_RESERVED (0x50) has been executed on a stack of two elements
C22_Witness ==
  /\ pc = "operated"
  /\ Executed = OP_RESERVED
  /\ Len(pre.stack) = 2
  /\ Post.error = unknownOpcode
  /\ Post.stack = pre.stack

-----------------------------------------------------------------------------
(* Properties of the composer *)

\* an entry of a trace is the banner or the synthetic step of this description
Describes(entry, description) ==
  "description" \in DOMAIN entry /\ entry.description = description

\* the entries of a trace that are banners or synthetic steps
Described(steps) == { i \in 1..Len(steps) : "description" \in DOMAIN steps[i] }

\* C23: if the unlocking pass ends with an error, the composer returns exactly
\* the unlocking trace: no locking banner, no locking instruction and no P2SH
\* step appears, and the last entry carries the error.
C23_UnlockingErrorReturnsUnlockingTrace ==
  (pc = "returned" /\ Error(FinalState(unlockingScriptResult)) # NoError)
    => /\ returned = unlockingScriptResult
       /\ lockingScriptResult = <<>>
       /\ p2shScriptResult = <<>>
       /\ Described(returned) = {1}
       /\ Describes(returned[1], unlockingBanner)
       /\ \A i \in 1..Len(returned) :
            Script(heap, returned[i].state) = heap.bufs[program.unlockingScript]
       /\ Error(Last(returned).state) # NoError

\* the unlocking script has pushed an element and failed on the second
\* instruction; three entries were returned
C23_Witness ==
  /\ pc = "returned"
  /\ Len(returned) = 3
  /\ returned = unlockingScriptResult
  /\ Error(returned[2].state) = NoError
  /\ Error(returned[3].state) = failedVerify

\* the external-state fields of an object, by value
External(state) ==
  LET o == heap.objs[state]
  IN [blockHeight |-> o.blockHeight,
      blockTime |-> o.blockTime,
      locktime |-> o.locktime,
      version |-> o.version,
      outpointIndex |-> o.outpointIndex,
      outpointValue |-> o.outpointValue,
      sequenceNumber |-> o.sequenceNumber,
      correspondingOutputHash |-> heap.bufs[o.correspondingOutputHash],
      outpointTransactionHash |-> heap.bufs[o.outpointTransactionHash],
      transactionOutpointsHash |-> heap.bufs[o.transactionOutpointsHash],
      transactionOutputsHash |-> heap.bufs[o.transactionOutputsHash],
      transactionSequenceNumbersHash |-> heap.bufs[o.transactionSequenceNumbersHash]]

\* the first state of a pass is a fresh start
StartsAfresh(steps) ==
  /\ Ip(steps[1].state) = 0
  /\ heap.objs[steps[1].state].lastCodeSeparator = -1
  /\ Error(steps[1].state) = NoError

\* C24: the passes share only stack contents: the locking pass begins with
\* ip = 0, lastCodeSeparator = -1, no error, script = lockingScript and a stack
\* equal to the final stack of the unlocking pass; the P2SH pass likewise
\* begins with ip = 0, lastCodeSeparator = -1 and no error; the external-state
\* fields of every pass equal program.state.
C24_PassesShareOnlyTheStack ==
  /\ lockingScriptResult # <<>>
       => /\ StartsAfresh(lockingScriptResult)
          /\ Script(heap, lockingScriptResult[1].state) = heap.bufs[program.lockingScript]
          /\ Value(heap, lockingScriptResult[1].state).stack
               = Value(heap, FinalState(unlockingScriptResult)).stack
  /\ p2shScriptResult # <<>> => StartsAfresh(p2shScriptResult)
  /\ \A steps \in {unlockingScriptResult, lockingScriptResult, p2shScriptResult} :
       \A i \in 1..Len(steps) : External(steps[i].state) = External(program.state)

\* a locking pass has begun at position 0 on the two elements left by an
\* unlocking pass that ended at position 2, and a P2SH pass has begun too
C24_Witness ==
  /\ pc = "returned"
  /\ p2shScriptResult # <<>>
  /\ Ip(FinalState(unlockingScriptResult)) = 2
  /\ Len(Value(heap, lockingScriptResult[1].state).stack) = 2
  /\ StartsAfresh(lockingScriptResult)
  /\ StartsAfresh(p2shScriptResult)

\* the number of bytes after the opcode at position i (from 1) that belong to
\* its instruction: the payload of a push, with its length field
OperandLength(script, i) ==
  LET opcode == script[i]
      byte(k) == IF i + k <= Len(script) THEN script[i + k] ELSE 0
  IN CASE opcode \in OP_DATA_1..OP_DATA_75 -> opcode
       [] opcode = OP_PUSHDATA1 -> 1 + byte(1)
       [] opcode = OP_PUSHDATA2 -> 2 + byte(1) + 256 * byte(2)
       [] opcode = OP_PUSHDATA4 -> 4 + byte(1) + 256 * byte(2) + 65536 * byte(3)
       [] OTHER -> 0

\* no opcode at an instruction position, from position i on, is beyond OP_16
RECURSIVE PushInstructionsOnly(_, _)
PushInstructionsOnly(script, i) ==
  IF i > Len(script) THEN TRUE
  ELSE /\ script[i] <= OP_16
       /\ PushInstructionsOnly(script, i + 1 + OperandLength(script, i))

\* the composer has returned for a locking script that matches the template,
\* after both passes
ReturnedForTemplate ==
  /\ pc = "returned"
  /\ lockingScriptResult # <<>>
  /\ isPayToScriptHash(heap.bufs[program.lockingScript])

\* C25: when the lockingScript matches the P2SH template, the synthetic step
\* 'P2SH error: unlockingScript must be push-only.' is appended, and no third
\* pass runs, exactly when some opcode at an instruction position of the
\* unlockingScript is beyond OP_16; an unlocking script made of push
\* instructions only, whatever bytes its payloads contain, passes the gate.
C25_PushOnlyGate ==
  ReturnedForTemplate
    => ((Describes(Last(returned), mustBePushOnly) /\ p2shScriptResult = <<>>)
          <=> ~PushInstructionsOnly(heap.bufs[program.unlockingScript], 1))

\* the stacks recorded in a trace, by value
Stacks(h, steps) == [i \in 1..Len(steps) |-> Value(h, steps[i].state).stack]

\* the stack of the final state of the unlocking pass, by value
UnlockingFinalStack == Value(heap, FinalState(unlockingScriptResult)).stack

\* the third pass was appended: its banner, the top element of the
\* unlocking-final stack as its script, and the rest of that stack to begin with
ThirdPassAppended ==
  /\ p2shScriptResult # <<>>
  /\ returned = unlockingScriptResult \o lockingScriptResult \o p2shScriptResult
  /\ Describes(p2shScriptResult[1], p2shBanner)
  /\ Described(p2shScriptResult) = {1}
  /\ \A i \in 1..Len(p2shScriptResult) :
       Script(heap, p2shScriptResult[i].state) = Last(UnlockingFinalStack)
  /\ Stacks(heap, p2shScriptResult)[1] = Front(UnlockingFinalStack)

\* without the template the result is the unlocking trace, then the locking trace
TwoPassesWithoutTemplate ==
  (/\ pc = "returned"
   /\ lockingScriptResult # <<>>
   /\ ~isPayToScriptHash(heap.bufs[program.lockingScript]))
    => /\ returned = unlockingScriptResult \o lockingScriptResult
       /\ p2shScriptResult = <<>>

\* no step changes a stack recorded in the unlocking or in the locking trace
RecordedStacksKept ==
  /\ Stacks(heap', unlockingScriptResult) = Stacks(heap, unlockingScriptResult)
  /\ Stacks(heap', lockingScriptResult) = Stacks(heap, lockingScriptResult)

\* C26: when the lockingScript matches the P2SH template (length 23, byte 0 =
\* OP_HASH160, byte 1 = OP_DATA_20, byte 22 = OP_EQUAL), the unlocking script
\* is push-only and the unlocking-final stack is non-empty, a third pass with
\* banner 'Begin P2SH script evaluation.' is appended whose script is the top
\* element of the unlocking-final stack and whose initial stack is that stack
\* without its top element; the stacks already recorded in the unlocking and
\* locking traces are not changed by this. When the lockingScript does not
\* match the template, the result is the unlocking trace followed by the
\* locking trace.
C26_ThirdPassRunsTheTopElement ==
  /\ []((/\ ReturnedForTemplate
         /\ PushInstructionsOnly(heap.bufs[program.unlockingScript], 1)
         /\ UnlockingFinalStack # <<>>) => ThirdPassAppended)
  /\ []TwoPassesWithoutTemplate
  /\ [][RecordedStacksKept]_vars

\* the same with the unlocking scripts that isPushOnly accepts: this holds
ThirdPassBehindTheGate ==
  /\ []((/\ ReturnedForTemplate
         /\ isPushOnly(heap.bufs[program.unlockingScript])
         /\ UnlockingFinalStack # <<>>) => ThirdPassAppended)
  /\ []TwoPassesWithoutTemplate
  /\ [][RecordedStacksKept]_vars

\* a third pass has run a redeem script of one opcode on the element that was
\* underneath it, and pushed a second element
ThirdPassRan ==
  /\ ReturnedForTemplate
  /\ Len(UnlockingFinalStack) = 2
  /\ Len(p2shScriptResult) = 2
  /\ Script(heap, p2shScriptResult[1].state) = UnlockingFinalStack[2]
  /\ Stacks(heap, p2shScriptResult)[1] = <<UnlockingFinalStack[1]>>
  /\ Len(Stacks(heap, p2shScriptResult)[2]) = 2
  /\ Error(Last(returned).state) = NoError

\* an entry a caller accepts: no error, and a truthy element on top of the stack
Accepting(entry) ==
  /\ Error(entry.state) = NoError
  /\ Value(heap, entry.state).stack # <<>>
  /\ stackElementIsTruthy(Last(Value(heap, entry.state).stack))

\* the 20 bytes the template holds
EmbeddedHash == SubSeq(heap.bufs[program.lockingScript], 3, 22)

\* C27: a P2SH spend with the wrong redeem script is not authorized: for a
\* lockingScript matching the P2SH template, if HASH160 of the redeem script
\* (the top element of the unlocking-final stack) differs from the 20 bytes
\* embedded in the lockingScript, the last entry of the trace returned is not
\* accepting: it has an error, an empty stack, or a top element that is not
\* truthy.
C27_WrongRedeemScriptIsNotAccepted ==
  (/\ ReturnedForTemplate
   /\ UnlockingFinalStack # <<>>
   /\ ripemd160Hash(sha256Hash(Last(UnlockingFinalStack))) # EmbeddedHash)
    => ~Accepting(Last(returned))

-----------------------------------------------------------------------------
(* Properties of the utilities *)

\* the width of the VarInt of a value below 2^32
VarIntWidth(value) ==
  IF value <= 252 THEN 1 ELSE IF value <= 65535 THEN 3 ELSE 5

\* C28: VarInt round trip: for every v in 0..2^64-1 and every offset,
\* readBitcoinVarInt on a buffer holding bigIntToBitcoinVarInt(v) at that
\* offset returns value = v and nextOffset = offset + width, the width being
\* 1, 3, 5 or 9.
C28_VarIntRoundTrip ==
  pc = "read"
    => /\ varIntRead.value = varIntValue
       /\ varIntRead.nextOffset = varIntOffset + VarIntWidth(varIntValue)
       /\ Len(bigIntToBitcoinVarInt(varIntValue)) = VarIntWidth(varIntValue)

\* C29: hex round trip: for every byte array b (of 0 to 100 bytes),
\* binToHex(hexToBin(binToHex(b))) = binToHex(b); binToHex(b) has exactly two
\* lowercase hexadecimal characters per byte, in the order of the bytes; and
\* hexToBin(binToHex(b)) = b.
C29_HexRoundTrip ==
  pc = "inverse"
    => /\ hexAgain = hexString
       /\ Len(hexString) = 2 * Len(hexInput)
       /\ \A i \in 1..Len(hexInput) :
            /\ hexString[2 * i - 1] = Digits[(hexInput[i] \div 16) + 1]
            /\ hexString[2 * i] = Digits[(hexInput[i] % 16) + 1]
       /\ hexDecoded = hexInput

\* the bytes 42, 100, 255 have gone round as 2a64ff
C29_Witness ==
  /\ pc = "inverse"
  /\ hexInput = <<42, 100, 255>>
  /\ hexString = <<"2", "a", "6", "4", "f", "f">>
  /\ hexDecoded = hexInput
  /\ hexAgain = hexString

\* the position of a state lies within its script, or at its end
IpWithinScript(h, state) ==
  /\ 0 <= h.objs[state].ip
  /\ h.objs[state].ip <= Len(Script(h, state))

\* the traces of the passes run so far
Passes == {unlockingScriptResult, lockingScriptResult, p2shScriptResult} \ {<<>>}

\* C30: in every state recorded by evaluate or debug of the Bitcoin Cash
\* instruction set started with ip = 0, and in every state of every pass of
\* the composer, 0 <= ip <= script.length, also after failing instructions and
\* after push instructions that skip their payload.
C30_IpWithinScript ==
  /\ \A i \in 1..Len(returned) : IpWithinScript(heap, returned[i].state)
  /\ \A steps \in Passes :
       /\ \A i \in 1..Len(steps) : IpWithinScript(heap, steps[i].state)
       /\ Ip(steps[1].state) = 0
       /\ LET e == evaluate(heap, steps[1].state)
          IN IpWithinScript(e.h, e.r)

\* the locking pass has skipped the 20 bytes of a push, and the P2SH pass has
\* ended with a failing instruction at the end of its script
C30_Witness ==
  /\ pc = "returned"
  /\ \E i \in 2..Len(lockingScriptResult) :
       Ip(lockingScriptResult[i].state) = Ip(lockingScriptResult[i - 1].state) + 21
  /\ p2shScriptResult # <<>>
  /\ Error(Last(returned).state) = malformedPush
  /\ Ip(Last(returned).state) = Len(Script(heap, Last(returned).state))

\* the stacks recorded in the passes run so far, by value
RecordedStacks ==
  UNION { { Stacks(heap, steps)[i] : i \in 1..Len(steps) } : steps \in Passes }

\* C31: in every state of every pass of the composer, which starts from an
\* empty stack, every stack element has a byte length of at most 520, whatever
\* the unlocking, locking and redeem scripts are.
C31_ElementsWithinMaximumPushSize ==
  /\ unlockingScriptResult # <<>> => Stacks(heap, unlockingScriptResult)[1] = <<>>
  /\ \A stack \in RecordedStacks :
       \A j \in 1..Len(stack) : Len(stack[j]) <= 520

\* an element of 520 bytes has been pushed, hashed by the locking pass, and is
\* recorded in the unlocking trace
C31_Witness ==
  /\ pc = "returned"
  /\ lockingScriptResult # <<>>
  /\ \E stack \in RecordedStacks : \E j \in 1..Len(stack) : Len(stack[j]) = 520

\* a state by value without the fields an instruction may change
Frame(state) ==
  [Value(heap, state) EXCEPT !.ip = 0, !.stack = <<>>, !.error = NoError]

\* C32: external state and script are read-only during execution: after any
\* sequence of instructions, the fields blockHeight, blockTime, locktime,
\* version, the three transaction hashes, correspondingOutputHash,
\* outpointTransactionHash, outpointIndex, outpointValue, sequenceNumber and
\* the bytes of script are equal to their values at the start of the pass;
\* only ip, stack and error change.
C32_OnlyIpStackAndErrorChange ==
  /\ \A steps \in Passes :
       \A i \in 1..Len(steps) : Frame(steps[i].state) = Frame(steps[1].state)
  /\ unlockingScriptResult # <<>>
       => /\ Script(heap, unlockingScriptResult[1].state) = heap.bufs[program.unlockingScript]
          /\ External(unlockingScriptResult[1].state) = External(program.state)

\* the locking pass has run OP_CHECKSIG on a signature and a public key, and
\* pushed its verdict
C32_Witness ==
  /\ pc = "returned"
  /\ heap.bufs[program.lockingScript] = <<OP_CHECKSIG>>
  /\ Len(lockingScriptResult) = 2
  /\ Error(Last(lockingScriptResult).state) = NoError
  /\ Stacks(heap, lockingScriptResult)[2] = << <<1>> >>
  /\ Ip(Last(unlockingScriptResult).state) = 44

\* the W length bytes of the PUSHDATA opcode executed are in the script
HoldsLengthField == PostOpcodeIp + Width <= Len(pre.script)

\* the error the stated order of checks gives: length bytes, payload,
\* minimum, maximum; the minimum of OP_PUSHDATA1 is left open between 75 and 76
StatedOrderHolds ==
  IF ~HoldsLengthAndPayload(Width) THEN Post.error = malformedPush
  ELSE IF LengthField(Width) < StatedMinimum(Width) - (IF Width = 1 THEN 1 ELSE 0)
       THEN Post.error = nonMinimalPush
  ELSE IF LengthField(Width) > maximumPushSize THEN Post.error = exceedsMaximumPush
  ELSE Post.error \in {NoError} \cup (IF LengthField(Width) = 75 THEN {nonMinimalPush} ELSE {})

\* C33: a PUSHDATA1/2/4 instruction checks, in this order, that the W length
\* bytes are present (else MalformedPush), that the whole payload is present
\* (else MalformedPush), that length >= minimum(W) (else NonMinimalPush) and
\* that length <= 520 (else ExceedsMaximumPush); so a truncated push with a
\* non-minimal length reports MalformedPush, and ExceedsMaximumPush is
\* reported only when all the payload bytes are present and the length is
\* minimal for W.
C33_PushDataErrorPrecedence ==
  (pc = "operated" /\ Executed \in {OP_PUSHDATA1, OP_PUSHDATA2, OP_PUSHDATA4})
    => /\ StatedOrderHolds
       /\ Post.error = exceedsMaximumPush
            => /\ HoldsLengthAndPayload(Width)
               /\ LengthField(Width) >= StatedMinimum(Width)

\* the order of checks on scripts that begin their ArrayBuffer
PrecedenceInOwnBuffer == OwnBuffer => C33_PushDataErrorPrecedence

\* a truncated push with a non-minimal length has reported MalformedPush, in
\* a script that begins its ArrayBuffer
TruncatedNonMinimalIsMalformed ==
  /\ pc = "operated"
  /\ OwnBuffer
  /\ Executed = OP_PUSHDATA2
  /\ HoldsLengthField
  /\ ~HoldsLengthAndPayload(2)
  /\ LengthField(2) < StatedMinimum(2)
  /\ Post.error = malformedPush

\* ---------------------------------------------------------------------------
\* Properties of vm.debug over the simple instruction set
\* ---------------------------------------------------------------------------

\* vm.evaluate: the instructions alone, nothing rendered
RECURSIVE simpleEvaluate(_)
simpleEvaluate(state) ==
  IF simpleContinue(state)
  THEN simpleEvaluate(simpleOperation(state.script[state.ip + 1], simpleBefore(state)))
  ELSE state

\* the opcode the step recorded at `i` has executed
SimpleExecuted(i) == simpleProgram.script[simpleTrace[i - 1].state.ip + 1]

\* the model returns for the tested script the value the test expects
DebugAsTested ==
  (pc = "simpleDebugged" /\ simpleProgram.script = TestedScript /\ simpleProgram.stack = <<>>)
    => simpleTrace = ExpectedDebug

\* asm and description of every step are those evaluated on the state after
\* `before` and before the operation
RenderedBeforeTheOperation ==
  \A i \in 2..Len(simpleTrace) :
    /\ simpleTrace[i].asm
         = simpleAsm(SimpleExecuted(i), simpleBefore(simpleTrace[i - 1].state)).text
    /\ simpleTrace[i].description
         = simpleDescription(SimpleExecuted(i), simpleBefore(simpleTrace[i - 1].state)).text

\* evaluating asm and description changes neither the states recorded nor the
\* later instructions: the trace ends in the state evaluate returns
RenderingLeavesExecutionAlone ==
  /\ \A i \in 2..Len(simpleTrace) :
       simpleTrace[i].state
         = simpleOperation(SimpleExecuted(i), simpleBefore(simpleTrace[i - 1].state))
  /\ pc = "simpleDebugged" => Last(simpleTrace).state = simpleEvaluate(simpleProgram)

\* C34: in debug, the asm and description of each step are evaluated against
\* the post-instruction state, i.e. the same state that is recorded in that
\* step, and evaluating them (even a description function that pops from the
\* state it receives, as the demo OP_ADD does) changes neither the recorded
\* state nor the execution of later instructions.
C34_RenderedOnTheRecordedState ==
  /\ \A i \in 2..Len(simpleTrace) :
       /\ simpleTrace[i].asm = simpleAsm(SimpleExecuted(i), simpleTrace[i].state).text
       /\ simpleTrace[i].description
            = simpleDescription(SimpleExecuted(i), simpleTrace[i].state).text
  /\ RenderingLeavesExecutionAlone

\* OP_ADD has been executed on two numbers and described
AddDescribed ==
  /\ pc = "simpleDebugged"
  /\ simpleProgram.script = TestedScript
  /\ Len(simpleTrace) = 8
  /\ Last(simpleTrace).state.stack = <<1>>

\* the entries of a trace that begin a pass
Banners(steps) == { i \in Described(steps) : steps[i].asm = "" }

\* what the instruction recorded at `i` of a pass is to add to ip: 1, and for
\* a push without error the bytes of its length field and of its payload
Advance(steps, i) ==
  LET script == Script(heap, steps[i - 1].state)
      at == Ip(steps[i - 1].state)
      opcode == steps[i].opcode
  IN IF Error(steps[i].state) # NoError THEN 1
     ELSE IF opcode \in OP_DATA_1..OP_DATA_75 THEN 1 + (opcode - OP_DATA_1 + 1)
     ELSE IF opcode = OP_PUSHDATA1 THEN 2 + script[at + 2]
     ELSE IF opcode = OP_PUSHDATA2 THEN 3 + script[at + 2] + 256 * script[at + 3]
     ELSE 1

\* C35: evaluate and debug terminate on every finite script: every executed
\* instruction strictly increases ip (by 1 for `before`, plus the payload
\* length for pushes) or sets error, so a pass executes at most script.length
\* instructions, and debugBitcoinCashAuthenticationProgram runs at most three
\* passes.
C35_PassesAreBounded ==
  /\ \A steps \in Passes :
       /\ \A i \in 2..Len(steps) :
            /\ Error(steps[i - 1].state) = NoError
            /\ Ip(steps[i].state) = Ip(steps[i - 1].state) + Advance(steps, i)
       /\ Len(steps) - 1 <= Len(Script(heap, steps[1].state))
       /\ LET e == evaluate(heap, steps[1].state)
          IN ~continue(e.h, e.r)
  /\ Cardinality(Banners(returned)) <= 3

\* three passes have run: the unlocking pass has executed as many
\* instructions as its script has bytes, the locking pass has skipped the 20
\* bytes of a push
C35_Witness ==
  /\ pc = "returned"
  /\ Cardinality(Banners(returned)) = 3
  /\ Len(unlockingScriptResult) = 3
  /\ Len(heap.bufs[program.unlockingScript]) = 2
  /\ \E i \in 2..Len(lockingScriptResult) :
       /\ lockingScriptResult[i].opcode = OP_DATA_1 + 19
       /\ Ip(lockingScriptResult[i].state) = Ip(lockingScriptResult[i - 1].state) + 21

\* the verdict OP_CHECKSIG is to push for the state `prior`, when the
\* scriptCode signed is VarInt(script.length) followed by the whole script
VerdictOverWholeScript(prior) ==
  LET o == Value(heap, prior)
      publicKey == o.stack[Len(o.stack)]
      sig == o.stack[Len(o.stack) - 1]
      scriptCode == bigIntToBitcoinVarInt(Len(o.script)) \o o.script
      digest == sha256Hash(sha256Hash(generateBitcoinCashSigningSerialization(
                  o.version, o.transactionOutpointsHash, o.transactionSequenceNumbersHash,
                  o.outpointTransactionHash, o.outpointIndex, scriptCode, o.outpointValue,
                  o.sequenceNumber, o.correspondingOutputHash, o.transactionOutputsHash,
                  o.locktime, Last(sig))))
  IN booleanToScriptNumber(verifySignatureDERLowS(Front(sig), publicKey, digest))

\* C36: lastCodeSeparator equals -1 in every state of every pass of
\* debugBitcoinCashAuthenticationProgram: no implemented operator writes it
\* (opcode 0xab is dispatched to the undefined operator), so the scriptCode
\* that OP_CHECKSIG signs is always VarInt(script.length) followed by the
\* whole script of the current pass.
C36_NoCodeSeparator ==
  \A steps \in Passes :
    /\ \A i \in 1..Len(steps) : heap.objs[steps[i].state].lastCodeSeparator = -1
    /\ \A i \in 2..Len(steps) :
         /\ steps[i].opcode = OP_CODESEPARATOR => Error(steps[i].state) = unknownOpcode
         /\ (steps[i].opcode = OP_CHECKSIG /\ Error(steps[i].state) = NoError)
              => Last(Stacks(heap, steps)[i]) = VerdictOverWholeScript(steps[i - 1].state)

\* the locking pass has pushed the verdict of OP_CHECKSIG and then met
\* OP_CODESEPARATOR
C36_Witness ==
  /\ pc = "returned"
  /\ heap.bufs[program.lockingScript] = <<OP_CHECKSIG, OP_CODESEPARATOR>>
  /\ Len(lockingScriptResult) = 3
  /\ lockingScriptResult[2].opcode = OP_CHECKSIG
  /\ Error(lockingScriptResult[2].state) = NoError
  /\ Error(lockingScriptResult[3].state) = unknownOpcode

\* ---------------------------------------------------------------------------
\* Canonical Script Number encodings
\* ---------------------------------------------------------------------------

\* the byte arrays next to bytes: one byte changed, one appended, the last dropped
Neighbours(bytes) ==
  { [bytes EXCEPT ![i] = b] : i \in 1..Len(bytes), b \in BinBytes }
    \cup { Append(bytes, b) : b \in BinBytes }
    \cup { SubSeq(bytes, 1, Len(bytes) - 1) }

\* C37: Script Number encodings are canonical: for every byte array b of
\* length 0..4 for which parseBytesAsScriptNumber(b) returns a number n,
\* |n| <= 2^31 - 1 and bigIntToScriptNumber(n) = b; hence two different byte
\* arrays never parse to the same number, and a parsed byte array is truthy
\* (stackElementIsTruthy) iff its number is not 0.
C37_ParsedEncodingsAreCanonical ==
  /\ (pc = "parsed" /\ Len(bin) <= 4 /\ parsed.error = NoError)
       => /\ -AllOnes(31) <= parsed.value /\ parsed.value <= AllOnes(31)
          /\ bigIntToScriptNumber(parsed.value) = bin
          /\ \A other \in Neighbours(bin) \ {bin} :
               parseBytesAsScriptNumber(other) # parsed
          /\ stackElementIsTruthy(bin) = (parsed.value # 0)
  /\ (pc = "cast" /\ Len(bin) <= 4 /\ parseBytesAsScriptNumber(bin).error = NoError)
       => truthy = (parseBytesAsScriptNumber(bin).value # 0)

\* the two bytes of -128, whose top byte holds the sign alone, have been parsed
C37_Witness ==
  /\ pc = "parsed"
  /\ bin = <<128, 128>>
  /\ parsed = Number(-128)

====
